---- MODULE Spec2Model ----
(***************************************************************************)
(* TaskFlow API: the Task / TimeEntry / Activity state-transition services *)
(* (task.service, timeEntry.service, activity.service) over the Firestore  *)
(* repositories, modelled as a state machine.                              *)
(*                                                                         *)
(* The three Firestore collections are the state.  A document id produced  *)
(* by randomUUID() is modelled by a fresh key: the next index of the       *)
(* timeEntries / activities sequence, an unused element of TaskIds.        *)
(* Date values are integers (milliseconds).  clock is the latest value     *)
(* `new Date()` returned; a call that reads the time gets clock or a later *)
(* value.  A nullable field holds Null or Some(v).                         *)
(***************************************************************************)
EXTENDS Integers, Sequences, FiniteSets, TLC

\* ------------------------------------------------------------------ bounds
MaxEntries == 2       \* time entries created in one behaviour
MaxActivities == 1    \* activity records besides those of createTask and of timers
MaxClock == 1000      \* the last clock value, in milliseconds

Users == {"u1", "u2"}
Admins == {"admin"}
TaskIdOrder == <<"t1", "t2">>
TaskIds == {TaskIdOrder[i] : i \in 1..Len(TaskIdOrder)}
TickSteps == {500, 1000}
TimeEntryIds == 1..MaxEntries

\* ------------------------------------------------------------ value model
Null == <<>>
Some(v) == <<v>>

\* The test `!== null` in place of truthiness.
IsNotNull(v) == v # <<>>

\* JavaScript truthiness of a `string | null` value: null and '' are falsy.
IsTruthy(v) == v # Null /\ v[1] # ""

TaskStatuses == {"TODO", "IN_PROGRESS", "DONE"}

\* Date arithmetic: milliseconds in a day.
MsPerDay == 86400000

\* date.toISOString().split('T')[0] for the first days after the epoch.
IsoDate(ms) == "1970-01-0" \o ToString(1 + ms \div MsPerDay)

\* Error messages thrown by the services; "ok" and "null" are the two
\* non-throwing outcomes (a value returned, null returned).
OutcomeOk == "ok"
OutcomeNull == "null"
ErrTaskNotFound == "Task not found"
ErrStartForbidden == "Forbidden: You can only start timer for tasks assigned to you"
ErrStartConflict == "You already have an active time entry. Please stop it first."
ErrStopForbidden == "Forbidden: You can only stop your own time entries"
ErrAlreadyStopped == "Time entry is already stopped"
ErrStartBeforeEnd == "Start time must be before end time"
ErrStatusForbidden == "Forbidden: You can only update status of tasks assigned to you"
ErrCompleteForbidden == "Forbidden: You can only complete tasks assigned to you"
ErrActivityWrite == "activity write failed"
ErrInvalidRange == "Invalid date range: \"from\" date must be before or equal to \"to\" date"
ErrCommentForbidden == "Forbidden: You can only comment on tasks assigned to you"
ErrViewCommentsForbidden == "Forbidden: You can only view comments on tasks assigned to you"
ErrViewActivitiesForbidden == "Forbidden: You can only view activities on tasks assigned to you"

VARIABLES
    tasks,        \* collection 'tasks': task id -> Task document
    timeEntries,  \* collection 'timeEntries': sequence, index = document id
    activities,   \* collection 'activities': sequence in creation order
    clock,        \* the server clock, in milliseconds
    result,       \* the last service call and what it returned or threw
    reqs,         \* the startTimeEntry calls in flight, one per request
    comments      \* the comments of all tasks, in creation order

vars == <<tasks, timeEntries, activities, clock, result, reqs, comments>>

\* --------------------------------------------------------------- entities
Task(title, description, status, createdByAdminId, assigneeUserId, priority, dueDate, tags) ==
    [title |-> title, description |-> description, status |-> status,
     createdByAdminId |-> createdByAdminId, assigneeUserId |-> assigneeUserId,
     priority |-> priority, dueDate |-> dueDate, tags |-> tags]

TimeEntry(taskId, userId, startTime, endTime, durationSeconds) ==
    [taskId |-> taskId, userId |-> userId, startTime |-> startTime,
     endTime |-> endTime, durationSeconds |-> durationSeconds]

Activity(taskId, type, message, actorUserId) ==
    [taskId |-> taskId, type |-> type, message |-> message,
     actorUserId |-> actorUserId]

\* The last service call: its name and what it returned or threw.
Result(op, outcome) == [op |-> op, outcome |-> outcome]

\* getActiveTimeEntry returning null
NoEntry == 0

\* ------------------------------------------------------------- validators
\* The guard with > in place of >=.
ensureStartBeforeEndOrEqual(start, end) == ~(start > end)

\* ensureStartBeforeEnd throws when start >= end; TRUE = it does not throw.
ensureStartBeforeEnd(start, end) == ~(start >= end)

\* The duration rounded up instead of down.
computeDurationSecondsCeil(start, end) == (end - start + 999) \div 1000

computeDurationSeconds(start, end) == (end - start) \div 1000

\* ----------------------------------------------------------- repositories
\* FirestoreTaskRepository.findById: the document exists.
TaskExists(t) == t \in DOMAIN tasks

\* FirestoreTaskRepository.mapDocumentToTask, on the assignee: a stored
\* assignee that is null or the empty string is read as null.
mapDocumentToTask(doc) ==
    [doc EXCEPT !.assigneeUserId = IF @ # Null /\ @ # Some("") THEN @ ELSE Null]

\* update clearing the assignee whenever the patch does not carry one.
TaskRepoUpdateDropsAssignee(task, patch) ==
    [f \in DOMAIN task |->
        IF f \in DOMAIN patch THEN patch[f]
        ELSE IF f = "assigneeUserId" THEN Null ELSE task[f]]

\* FirestoreTaskRepository.update: only the fields present in the patch are
\* written, the others keep their stored value.
TaskRepoUpdate(task, patch) ==
    [f \in DOMAIN task |-> IF f \in DOMAIN patch THEN patch[f] ELSE task[f]]

\* FirestoreTimeEntryRepository.findById
TimeEntryExists(entries, id) == id \in DOMAIN entries

\* findActiveByUser with the endTime condition inverted.
findActiveByUserStopped(entries, u) ==
    {i \in DOMAIN entries : entries[i].userId = u /\ entries[i].endTime # Null}

\* FirestoreTimeEntryRepository.findActiveByUser: the query
\* userId == u AND endTime == null, limit(1).  The set of ids the query may
\* return; empty when there is no such document.
findActiveByUser(entries, u) ==
    {i \in DOMAIN entries : entries[i].userId = u /\ entries[i].endTime = Null}

\* create as a conditional write: nothing is stored while the user has an
\* active entry.
TimeEntryRepoCreateIfNoneActive(entries, entry) ==
    IF \E i \in DOMAIN entries :
          entries[i].userId = entry.userId /\ entries[i].endTime = Null
    THEN entries ELSE Append(entries, entry)

\* FirestoreTimeEntryRepository.create: docRef.set under a fresh id, with no
\* condition on the documents already stored.
TimeEntryRepoCreate(entries, entry) == Append(entries, entry)

\* update writing endTime only.
TimeEntryRepoUpdateEndOnly(entry, endTime, durationSeconds) ==
    [entry EXCEPT !.endTime = Some(endTime)]

\* FirestoreTimeEntryRepository.update with the patch {endTime, durationSeconds}
TimeEntryRepoUpdate(entry, endTime, durationSeconds) ==
    [entry EXCEPT !.endTime = Some(endTime),
                  !.durationSeconds = Some(durationSeconds)]

\* ------------------------------------------------------- activity.service
\* create keyed by task and type, overwriting the record stored under the
\* same key.
ActivityRepoCreateKeyed(log, acts) ==
    SelectSeq(log, LAMBDA a : \A k \in DOMAIN acts :
                                 ~(acts[k].taskId = a.taskId
                                   /\ acts[k].type = a.type))
        \o acts

\* FirestoreActivityRepository.create: each record is set under a fresh id,
\* after the records already stored.
ActivityRepoCreate(log, acts) == log \o acts

\* createActivity appends one record.  failAt = k > 0 means the k-th
\* activity write of the call throws; the writes before it are kept.
Emitted(acts, failAt) ==
    IF failAt \in 1..Len(acts) THEN SubSeq(acts, 1, failAt - 1) ELSE acts

ActivityFailed(acts, failAt) == failAt \in 1..Len(acts)

\* The message giving the whole duration as seconds.
StoppedMessageInSeconds(durationSeconds) ==
    "Stopped timer (0m " \o ToString(durationSeconds) \o "s)"

StoppedMessage(durationSeconds) ==
    "Stopped timer (" \o ToString(durationSeconds \div 60) \o "m "
        \o ToString(durationSeconds % 60) \o "s)"

\* ------------------------------------------------------------ model bound
\* The activity log only grows.  A sequential call is explored while the
\* records it adds keep the log within MaxActivities, not counting the records of
\* createTask (at most two per task) and the TIMER_STARTED / TIMER_STOPPED
\* records (bounded by MaxEntries).
CreationRecords ==
    Cardinality({i \in DOMAIN activities :
        \/ activities[i].type = "TASK_CREATED"
        \/ /\ i > 1
           /\ activities[i].type = "TASK_ASSIGNED"
           /\ activities[i - 1].type = "TASK_CREATED"
           /\ activities[i - 1].taskId = activities[i].taskId})

TimerRecords ==
    Cardinality({i \in DOMAIN activities :
        activities[i].type \in {"TIMER_STARTED", "TIMER_STOPPED"}})

IsTimerRecord(a) == a.type \in {"TIMER_STARTED", "TIMER_STOPPED"}

\* The records of task changes: neither creation nor timer records.
ChangeRecords == Len(activities) - CreationRecords - TimerRecords

\* The step appends its records and keeps the task-change records within max.
WithinLog(max) ==
    LET added == {i \in (Len(activities) + 1)..Len(activities') :
                     ~IsTimerRecord(activities'[i])}
    IN IF added = {} THEN TRUE
       ELSE ChangeRecords + Cardinality(added) <= max

\* ------------------------------------------------------- requests in flight
\* A startTimeEntry call suspended at one of its awaits: where it is, its
\* arguments, and the value `new Date()` gave it.
Requests == {"r1", "r2"}

Request(pc, userId, taskId, now, outcome) ==
    [pc |-> pc, userId |-> userId, taskId |-> taskId, now |-> now,
     outcome |-> outcome]

\* No call received yet: no arguments, no time read, nothing returned.
Idle == Request("idle", "", "", 0, "")

\* ------------------------------------------------------------------- Init
Init ==
    /\ tasks = << >>
    /\ timeEntries = << >>
    /\ activities = << >>
    /\ clock = 0
    /\ result = Result("none", OutcomeOk)
    /\ reqs = [r \in Requests |-> Idle]
    /\ comments = << >>

\* ------------------------------------------------------------------ clock
\* What `new Date()` may return: the latest value read or a later one.
Nows == {clock} \cup {clock + d : d \in {e \in TickSteps : clock + e <= MaxClock}}

\* ------------------------------------------------------ timeEntry.service
\* The assignee check letting unassigned tasks through.
IsAssigneeOrUnassigned(task, userId) ==
    task.assigneeUserId = Null \/ task.assigneeUserId = Some(userId)

\* The assignee check left out.
IsAssigneeAlways(task, userId) == TRUE

\* The assignee check turning finished tasks away.
IsAssigneeOfOpenTask(task, userId) ==
    task.assigneeUserId = <<userId>> /\ task.status # "DONE"

\* task.assigneeUserId !== userId (start, complete, member status update)
IsAssignee(task, userId) == task.assigneeUserId = Some(userId)

\* The owner check placed after the already-stopped check.
IsOwnerOrStopped(entry, userId) == entry.userId = userId \/ entry.endTime # Null

\* The owner check asking for the task's assignee as well.
IsOwnerAndAssignee(entry, userId) ==
    entry.userId = userId /\ tasks[entry.taskId].assigneeUserId = <<userId>>

\* timeEntry.userId !== userId
IsOwner(entry, userId) == entry.userId = userId

\* The already-stopped check left out.
IsStoppedNever(entry) == FALSE

\* timeEntry.endTime !== null
IsStopped(entry) == entry.endTime # Null

\* The active-entry check left out.
HasActiveEntryNever(entries, userId) == FALSE

\* `if (activeEntry)` on the result of findActiveByUser
HasActiveEntry(entries, userId) == findActiveByUser(entries, userId) # {}

startTimeEntry(userId, taskId, failAt) ==
    LET acts == << Activity(taskId, "TIMER_STARTED", "Started timer", userId) >>
        res(o) == Result("startTimeEntry", o)
    IN
    IF ~TaskExists(taskId) THEN
        /\ result' = res(ErrTaskNotFound)
        /\ UNCHANGED <<tasks, timeEntries, activities, clock>>
    ELSE IF ~IsAssignee(tasks[taskId], userId) THEN
        /\ result' = res(ErrStartForbidden)
        /\ UNCHANGED <<tasks, timeEntries, activities, clock>>
    ELSE IF HasActiveEntry(timeEntries, userId) THEN
        /\ result' = res(ErrStartConflict)
        /\ UNCHANGED <<tasks, timeEntries, activities, clock>>
    ELSE \E now \in Nows :
        /\ Len(timeEntries) < MaxEntries
        /\ timeEntries' = TimeEntryRepoCreate(timeEntries,
                               TimeEntry(taskId, userId, now, Null, Null))
        /\ activities' = ActivityRepoCreate(activities,
                                             Emitted(acts, failAt))
        /\ result' = res(IF ActivityFailed(acts, failAt)
                         THEN ErrActivityWrite ELSE OutcomeOk)
        /\ clock' = now
        /\ UNCHANGED tasks

\* A missing entry reported by throwing.
stopTimeEntryMissingThrows == "Time entry not found"

\* `if (!timeEntry) return null`
stopTimeEntryMissing == OutcomeNull

\* stopTimeEntry reads the time only once the entry is found, owned by the
\* caller and still active.
StopReadsTime(entries, userId, timeEntryId) ==
    /\ TimeEntryExists(entries, timeEntryId)
    /\ IsOwner(entries[timeEntryId], userId)
    /\ ~IsStopped(entries[timeEntryId])

\* The values `new Date()` may return to a stopTimeEntry call.
StopNows(entries, userId, timeEntryId) ==
    IF StopReadsTime(entries, userId, timeEntryId) THEN Nows ELSE {clock}

\* The body of stopTimeEntry as a function of the store and of the value
\* `new Date()` returns: the outcome, the time entries afterwards and the
\* activities it emits.  completeTask calls it as well.
StopEffect(entries, userId, timeEntryId, now, failAt) ==
    LET same(o) == [outcome |-> o, entries |-> entries, acts |-> << >>] IN
    IF ~TimeEntryExists(entries, timeEntryId) THEN same(stopTimeEntryMissing)
    ELSE LET timeEntry == entries[timeEntryId] IN
    IF ~IsOwner(timeEntry, userId) THEN same(ErrStopForbidden)
    ELSE IF IsStopped(timeEntry) THEN same(ErrAlreadyStopped)
    ELSE IF ~ensureStartBeforeEnd(timeEntry.startTime, now)
         THEN same(ErrStartBeforeEnd)
    ELSE
        LET durationSeconds == computeDurationSeconds(timeEntry.startTime, now)
            acts == << Activity(timeEntry.taskId, "TIMER_STOPPED",
                                StoppedMessage(durationSeconds), userId) >>
        IN [outcome |-> IF ActivityFailed(acts, failAt)
                        THEN ErrActivityWrite ELSE OutcomeOk,
            entries |-> [entries EXCEPT ![timeEntryId] =
                            TimeEntryRepoUpdate(timeEntry, now, durationSeconds)],
            acts |-> Emitted(acts, failAt)]

stopTimeEntry(userId, timeEntryId, failAt) ==
    \E now \in StopNows(timeEntries, userId, timeEntryId) :
        LET eff == StopEffect(timeEntries, userId, timeEntryId, now, failAt) IN
        /\ timeEntries' = eff.entries
        /\ activities' = ActivityRepoCreate(activities, eff.acts)
        /\ result' = Result("stopTimeEntry", eff.outcome)
        /\ clock' = now
        /\ UNCHANGED tasks

\* getActiveTimeEntry never finding the entry.
getActiveTimeEntryNone(entries, userId) == {NoEntry}

\* getActiveTimeEntry: what findActiveByUser may return, NoEntry for null.
getActiveTimeEntry(entries, userId) ==
    IF findActiveByUser(entries, userId) = {} THEN {NoEntry}
    ELSE findActiveByUser(entries, userId)

\* ----------------------------------------------------------- task.service
\* randomUUID(): a fresh document id.  Ids carry no meaning, so the first
\* unused one in a fixed order stands for any fresh id.
FreshTaskIds ==
    LET unused == {i \in 1..Len(TaskIdOrder) : TaskIdOrder[i] \notin DOMAIN tasks}
    IN {TaskIdOrder[i] : i \in {j \in unused : \A k \in unused : j <= k}}

createTask(adminId, title, description, assigneeUserId, priority, dueDate, tags, failAt) ==
    \E id \in FreshTaskIds :
        LET task == Task(title, description, "TODO", adminId, assigneeUserId,
                         priority, dueDate, tags)
            acts == << Activity(id, "TASK_CREATED",
                                "Task \"" \o title \o "\" created", adminId) >>
                    \o (IF IsTruthy(assigneeUserId)
                        THEN << Activity(id, "TASK_ASSIGNED",
                                   "Assigned to user " \o assigneeUserId[1],
                                   adminId) >>
                        ELSE << >>)
        IN
        /\ tasks' = (id :> task) @@ tasks
        /\ activities' = ActivityRepoCreate(activities,
                                             Emitted(acts, failAt))
        /\ result' = Result("createTask", IF ActivityFailed(acts, failAt)
                                          THEN ErrActivityWrite ELSE OutcomeOk)
        /\ UNCHANGED <<timeEntries, clock>>

\* The message built without the 'Unassigned' case.
AssignedMessageOfId(assigneeUserId) ==
    "Assigned to user "
        \o (IF assigneeUserId = Null THEN "null" ELSE assigneeUserId[1])

AssignedMessage(assigneeUserId) ==
    IF IsTruthy(assigneeUserId)
    THEN "Assigned to user " \o assigneeUserId[1] ELSE "Unassigned"

DueDateMessage(dueDate) ==
    "Due date set to " \o
        (IF dueDate # Null THEN IsoDate(dueDate[1]) ELSE "None")

\* The activities updateTaskAsAdmin logs for a patch, in the order of the
\* code's five if-statements.
UpdateActivities(taskId, existing, patch, actorUserId) ==
    LET has(f) == f \in DOMAIN patch
        one(type, message) == << Activity(taskId, type, message, actorUserId) >>
    IN
       (IF has("status") /\ patch.status # existing.status
        THEN one("TASK_STATUS_CHANGED", "Status changed to " \o patch.status)
        ELSE << >>)
    \o (IF has("assigneeUserId")
           /\ patch.assigneeUserId # existing.assigneeUserId
        THEN one("TASK_ASSIGNED", AssignedMessage(patch.assigneeUserId))
        ELSE << >>)
    \o (IF has("priority") /\ patch.priority # existing.priority
        THEN one("TASK_PRIORITY_CHANGED",
                 "Priority changed to " \o patch.priority)
        ELSE << >>)
    \o (IF has("dueDate")
        THEN one("TASK_DUE_DATE_CHANGED", DueDateMessage(patch.dueDate))
        ELSE << >>)
    \o (IF has("tags") /\ patch.tags # existing.tags
        THEN one("TASK_TAGS_CHANGED", "Tags updated")
        ELSE << >>)

updateTaskAsAdmin(taskId, patch, actorUserId, failAt) ==
    LET res(o) == Result("updateTaskAsAdmin", o) IN
    IF ~TaskExists(taskId) THEN
        /\ result' = res(OutcomeNull)
        /\ UNCHANGED <<tasks, timeEntries, activities, clock>>
    ELSE
        LET existing == mapDocumentToTask(tasks[taskId])
            acts == UpdateActivities(taskId, existing, patch, actorUserId)
        IN
        /\ tasks' = [tasks EXCEPT ![taskId] = TaskRepoUpdate(@, patch)]
        /\ activities' = ActivityRepoCreate(activities,
                                             Emitted(acts, failAt))
        /\ result' = res(IF ActivityFailed(acts, failAt)
                         THEN ErrActivityWrite ELSE OutcomeOk)
        /\ UNCHANGED <<timeEntries, clock>>

assignTask(taskId, assigneeUserId, actorUserId, failAt) ==
    LET res(o) == Result("assignTask", o)
        acts == << Activity(taskId, "TASK_ASSIGNED",
                            AssignedMessage(assigneeUserId), actorUserId) >>
    IN
    IF ~TaskExists(taskId) THEN
        /\ result' = res(OutcomeNull)
        /\ UNCHANGED <<tasks, timeEntries, activities, clock>>
    ELSE
        /\ tasks' = [tasks EXCEPT ![taskId] =
                        TaskRepoUpdate(@, [assigneeUserId |-> assigneeUserId])]
        /\ activities' = ActivityRepoCreate(activities,
                                             Emitted(acts, failAt))
        /\ result' = res(IF ActivityFailed(acts, failAt)
                         THEN ErrActivityWrite ELSE OutcomeOk)
        /\ UNCHANGED <<timeEntries, clock>>

updateTaskStatusAsMember(taskId, memberId, status, failAt) ==
    LET res(o) == Result("updateTaskStatusAsMember", o)
        acts == << Activity(taskId, "TASK_STATUS_CHANGED",
                            "Status changed to " \o status, memberId) >>
    IN
    IF ~TaskExists(taskId) THEN
        /\ result' = res(OutcomeNull)
        /\ UNCHANGED <<tasks, timeEntries, activities, clock>>
    ELSE IF ~IsAssignee(tasks[taskId], memberId) THEN
        /\ result' = res(ErrStatusForbidden)
        /\ UNCHANGED <<tasks, timeEntries, activities, clock>>
    ELSE
        /\ tasks' = [tasks EXCEPT ![taskId] =
                        TaskRepoUpdate(@, [status |-> status])]
        /\ activities' = ActivityRepoCreate(activities,
                                             Emitted(acts, failAt))
        /\ result' = res(IF ActivityFailed(acts, failAt)
                         THEN ErrActivityWrite ELSE OutcomeOk)
        /\ UNCHANGED <<timeEntries, clock>>

\* What completeTask returns: { task, stoppedTimeEntry }, the latter the
\* entry stopTimeEntry returned or null (NoEntry).
Completed(stoppedTimeEntry) ==
    [op |-> "completeTask", outcome |-> OutcomeOk,
     stoppedTimeEntry |-> stoppedTimeEntry]

completeTask(taskId, memberId, failAt) ==
    LET res(o) == Result("completeTask", o) IN
    IF ~TaskExists(taskId) THEN
        /\ result' = res(ErrTaskNotFound)
        /\ UNCHANGED <<tasks, timeEntries, activities, clock>>
    ELSE IF ~IsAssignee(tasks[taskId], memberId) THEN
        /\ result' = res(ErrCompleteForbidden)
        /\ UNCHANGED <<tasks, timeEntries, activities, clock>>
    ELSE
        \E activeEntry \in getActiveTimeEntry(timeEntries, memberId) :
        \E now \in IF activeEntry # NoEntry
                       /\ timeEntries[activeEntry].taskId = taskId
                    THEN StopNows(timeEntries, memberId, activeEntry)
                    ELSE {clock} :
            LET stops == /\ activeEntry # NoEntry
                         /\ timeEntries[activeEntry].taskId = taskId
                eff == IF stops
                       THEN StopEffect(timeEntries, memberId, activeEntry,
                                       now, failAt)
                       ELSE [outcome |-> OutcomeOk, entries |-> timeEntries,
                             acts |-> << >>]
                done == << Activity(taskId, "TASK_STATUS_CHANGED",
                                    "Task completed", memberId) >>
                \* the activity writes left to fail once stopTimeEntry returned
                failDone == IF failAt = 0 THEN 0 ELSE failAt - Len(eff.acts)
            IN
            IF eff.outcome \notin {OutcomeOk, OutcomeNull} THEN
                \* stopTimeEntry threw: the error propagates
                /\ timeEntries' = eff.entries
                /\ activities' = ActivityRepoCreate(activities, eff.acts)
                /\ result' = res(eff.outcome)
                /\ clock' = now
                /\ UNCHANGED tasks
            ELSE
                /\ timeEntries' = eff.entries
                /\ tasks' = [tasks EXCEPT ![taskId] =
                                TaskRepoUpdate(@, [status |-> "DONE"])]
                /\ activities' = ActivityRepoCreate(
                                    ActivityRepoCreate(activities, eff.acts),
                                    Emitted(done, failDone))
                /\ result' = IF ActivityFailed(done, failDone)
                             THEN res(ErrActivityWrite)
                             ELSE Completed(IF stops /\ eff.outcome = OutcomeOk
                                            THEN activeEntry ELSE NoEntry)
                /\ clock' = now

\* ----------------------------------------------------------------- inputs
Assignees == {Null} \cup {Some(u) : u \in Users}

\* The status a member or an admin sets in this specification; completeTask
\* sets DONE.
StatusInputs == {"IN_PROGRESS"}

\* Admin patches: empty, a status, an assignee.
PatchesCore ==
    {<< >>}
    \cup {[status |-> s] : s \in StatusInputs}
    \cup {[assigneeUserId |-> a] : a \in Assignees}


\* -------------------------------------------------------------- sequential
\* Every service call runs to completion before the next begins, and the
\* activities collection accepts every write.
NoFail == 0

CreateTaskCall ==
    /\ \E admin \in Admins, a \in Assignees :
           createTask(admin, "A", "D", a, "MEDIUM", Null, << >>, NoFail)
    /\ UNCHANGED <<reqs, comments>>

UpdateTaskAsAdminCall ==
    /\ \E t \in TaskIds, p \in PatchesCore, admin \in Admins :
           updateTaskAsAdmin(t, p, admin, NoFail)
    /\ WithinLog(MaxActivities)
    /\ UNCHANGED <<reqs, comments>>

AssignTaskCall ==
    /\ \E t \in TaskIds, a \in Assignees, admin \in Admins :
           assignTask(t, a, admin, NoFail)
    /\ WithinLog(MaxActivities)
    /\ UNCHANGED <<reqs, comments>>

UpdateTaskStatusAsMemberCall ==
    /\ \E t \in TaskIds, m \in Users, s \in StatusInputs :
           updateTaskStatusAsMember(t, m, s, NoFail)
    /\ WithinLog(MaxActivities)
    /\ UNCHANGED <<reqs, comments>>

CompleteTaskCall ==
    /\ \E t \in TaskIds, m \in Users : completeTask(t, m, NoFail)
    /\ WithinLog(MaxActivities)
    /\ UNCHANGED <<reqs, comments>>

StartTimeEntryCall ==
    /\ \E u \in Users, t \in TaskIds : startTimeEntry(u, t, NoFail)
    /\ UNCHANGED <<reqs, comments>>

StopTimeEntryCall ==
    /\ \E u \in Users, id \in TimeEntryIds : stopTimeEntry(u, id, NoFail)
    /\ UNCHANGED <<reqs, comments>>

Next ==
    \/ CreateTaskCall
    \/ UpdateTaskAsAdminCall
    \/ AssignTaskCall
    \/ UpdateTaskStatusAsMemberCall
    \/ CompleteTaskCall
    \/ StartTimeEntryCall
    \/ StopTimeEntryCall

Spec == Init /\ [][Next]_vars

\* -------------------------------------------------------------- concurrent
\* startTimeEntry as the event loop runs it: the call is suspended at each
\* await (taskRepository.findById, findActiveByUser, create, createActivity)
\* and another request may run in between.
StartReceive(r, userId, taskId) ==
    /\ reqs[r].pc = "idle"
    /\ reqs' = [reqs EXCEPT ![r] = Request("findTask", userId, taskId, 0, "")]
    /\ UNCHANGED <<tasks, timeEntries, activities, clock, result>>

\* taskRepository.findById resolves; the assignee is compared at once.
StartFindTask(r) ==
    LET q == reqs[r]
        throw(e) == /\ reqs' = [reqs EXCEPT ![r].pc = "done", ![r].outcome = e]
                    /\ result' = Result("startTimeEntry", e)
    IN
    /\ q.pc = "findTask"
    /\ IF ~TaskExists(q.taskId) THEN throw(ErrTaskNotFound)
       ELSE IF ~IsAssignee(tasks[q.taskId], q.userId)
            THEN throw(ErrStartForbidden)
       ELSE /\ reqs' = [reqs EXCEPT ![r].pc = "findActive"]
            /\ UNCHANGED result
    /\ UNCHANGED <<tasks, timeEntries, activities, clock>>

\* findActiveByUser resolves; when it found nothing the call reads the time
\* and builds the entry it is going to create.
StartFindActive(r) ==
    LET q == reqs[r] IN
    /\ q.pc = "findActive"
    /\ IF HasActiveEntry(timeEntries, q.userId)
       THEN /\ reqs' = [reqs EXCEPT ![r].pc = "done",
                                     ![r].outcome = ErrStartConflict]
            /\ result' = Result("startTimeEntry", ErrStartConflict)
            /\ UNCHANGED clock
       ELSE \E now \in Nows :
            /\ reqs' = [reqs EXCEPT ![r].pc = "create", ![r].now = now]
            /\ clock' = now
            /\ UNCHANGED result
    /\ UNCHANGED <<tasks, timeEntries, activities>>

\* timeEntryRepository.create resolves.
StartCreate(r) ==
    LET q == reqs[r] IN
    /\ q.pc = "create"
    /\ Len(timeEntries) < MaxEntries
    /\ timeEntries' = TimeEntryRepoCreate(timeEntries,
                           TimeEntry(q.taskId, q.userId, q.now, Null, Null))
    /\ reqs' = [reqs EXCEPT ![r].pc = "log"]
    /\ UNCHANGED <<tasks, activities, clock, result>>

\* createActivity resolves and the call returns the entry.
StartLog(r) ==
    LET q == reqs[r] IN
    /\ q.pc = "log"
    /\ activities' = ActivityRepoCreate(activities,
                        << Activity(q.taskId, "TIMER_STARTED", "Started timer",
                                    q.userId) >>)
    /\ reqs' = [reqs EXCEPT ![r].pc = "done", ![r].outcome = OutcomeOk]
    /\ result' = Result("startTimeEntry", OutcomeOk)
    /\ UNCHANGED <<tasks, timeEntries, clock>>

StartReceiveStep ==
    /\ \E r \in Requests, u \in Users, t \in TaskIds : StartReceive(r, u, t)
    /\ UNCHANGED comments

StartFindTaskStep ==
    /\ \E r \in Requests : StartFindTask(r)
    /\ UNCHANGED comments

StartFindActiveStep ==
    /\ \E r \in Requests : StartFindActive(r)
    /\ UNCHANGED comments

StartCreateStep ==
    /\ \E r \in Requests : StartCreate(r)
    /\ UNCHANGED comments

StartLogStep ==
    /\ \E r \in Requests : StartLog(r)
    /\ UNCHANGED comments

NextRace ==
    \/ CreateTaskCall
    \/ StartReceiveStep
    \/ StartFindTaskStep
    \/ StartFindActiveStep
    \/ StartCreateStep
    \/ StartLogStep

SpecRace == Init /\ [][NextRace]_vars

\* ------------------------------------------------------- task management
\* The task operations alone, with every kind of patch, called directly and
\* through the controller of PATCH /api/tasks/:id.
MaxTaskActivities == 2   \* task-change records in one behaviour
MaxManagedTasks == 1     \* tasks created in one behaviour

Roles == {"ADMIN", "MEMBER"}

\* Assignees a caller may send: null, a user id, the empty string.
AssigneeInputs == Assignees \cup {Some("")}

PriorityInputs == {"MEDIUM", "HIGH"}

\* Due dates of a request body, as days after the epoch.
DueDays == {1}

TagInputs == {<< >>, <<"a", "b">>, <<"b", "a">>}

\* new Date(dto.dueDate)
ParseDate(day) == day * MsPerDay

\* Patches handed to updateTaskAsAdmin by a direct caller: one field.
PatchesRich ==
    {<< >>}
    \cup {[status |-> v] : v \in TaskStatuses}
    \cup {[assigneeUserId |-> v] : v \in Assignees}
    \cup {[priority |-> v] : v \in PriorityInputs}
    \cup {[dueDate |-> v] : v \in {Null} \cup {Some(ParseDate(d)) : d \in DueDays}}
    \cup {[tags |-> v] : v \in TagInputs}
    \cup {[title |-> v] : v \in {"B"}}

\* Request bodies of PATCH /api/tasks/:id: one field, dueDate a date string
\* (its day) or null.
UpdateBodies ==
    {<< >>}
    \cup {[status |-> v] : v \in TaskStatuses}
    \cup {[assigneeUserId |-> v] : v \in Assignees}
    \cup {[priority |-> v] : v \in PriorityInputs}
    \cup {[dueDate |-> v] : v \in {Null} \cup {Some(d) : d \in DueDays}}
    \cup {[title |-> v] : v \in {"B"}}

\* The patch taskController.update builds from the body: every field as the
\* DTO holds it (absent when the body omits it), except dueDate, which is
\* a Date when the body has a non-empty date string and null otherwise.
ControllerPatch(body) ==
    [f \in DOMAIN body \cup {"dueDate"} |->
        IF f = "dueDate"
        THEN IF "dueDate" \in DOMAIN body /\ body.dueDate # Null
             THEN Some(ParseDate(body.dueDate[1])) ELSE Null
        ELSE body[f]]

ErrAdminRequired == "Forbidden: Admin access required"

taskControllerUpdate(role, uid, id, body, failAt) ==
    IF role # "ADMIN" THEN
        /\ result' = Result("taskController.update", ErrAdminRequired)
        /\ UNCHANGED <<tasks, timeEntries, activities, clock>>
    ELSE updateTaskAsAdmin(id, ControllerPatch(body), uid, failAt)

TaskCreate ==
    /\ Cardinality(DOMAIN tasks) < MaxManagedTasks
    /\ \E admin \in Admins, a \in AssigneeInputs,
          d \in {Null} \cup {Some(ParseDate(x)) : x \in DueDays} :
           createTask(admin, "A", "D", a, "MEDIUM", d, << >>, NoFail)
    /\ UNCHANGED <<reqs, comments>>

TaskAdminUpdate ==
    /\ \E t \in TaskIds, p \in PatchesRich, admin \in Admins :
           updateTaskAsAdmin(t, p, admin, NoFail)
    /\ WithinLog(MaxTaskActivities)
    /\ UNCHANGED <<reqs, comments>>

TaskControllerUpdate ==
    /\ \E role \in Roles, t \in TaskIds, body \in UpdateBodies :
           taskControllerUpdate(role, IF role = "ADMIN" THEN "admin" ELSE "u1",
                                t, body, NoFail)
    /\ WithinLog(MaxTaskActivities)
    /\ UNCHANGED <<reqs, comments>>

TaskAssign ==
    /\ \E t \in TaskIds, a \in AssigneeInputs, admin \in Admins :
           assignTask(t, a, admin, NoFail)
    /\ WithinLog(MaxTaskActivities)
    /\ UNCHANGED <<reqs, comments>>

TaskMemberStatus ==
    /\ \E t \in TaskIds, m \in Users, v \in TaskStatuses :
           updateTaskStatusAsMember(t, m, v, NoFail)
    /\ WithinLog(MaxTaskActivities)
    /\ UNCHANGED <<reqs, comments>>

NextTasks ==
    \/ TaskCreate
    \/ TaskControllerUpdate
    \/ TaskAdminUpdate
    \/ TaskAssign
    \/ TaskMemberStatus

SpecTasks == Init /\ [][NextTasks]_vars

\* ------------------------------------------------------------ task lists
MaxListedTasks == 2

\* String.prototype.toLowerCase on the titles and queries of the model.
toLowerCase(str) ==
    IF str = "A" THEN "a" ELSE IF str = "B" THEN "b"
    ELSE IF str = "D" THEN "d" ELSE str

\* String.prototype.includes for a text of one character and a non-empty
\* query: the query is the text.
includes(text, query) == text = query

\* The documents of the collection in document order.
Docs == SelectSeq(TaskIdOrder, LAMBDA t : t \in DOMAIN tasks)

\* filters.<field> is present and truthy
HasFilter(filters, f) == f \in DOMAIN filters /\ filters[f] # ""

\* a.dueDate?.getTime() || 0
DueTime(t) == IF tasks[t].dueDate = Null THEN 0 ELSE tasks[t].dueDate[1]

\* The comparator of searchAndFilter, for sortBy 'dueDate'.
Compare(a, b, filters) ==
    IF "sortOrder" \in DOMAIN filters /\ filters.sortOrder = "desc"
    THEN DueTime(b) - DueTime(a)
    ELSE DueTime(a) - DueTime(b)

RECURSIVE InsertSorted(_, _, _)
InsertSorted(sorted, x, filters) ==
    IF sorted = << >> THEN << x >>
    ELSE LET last == sorted[Len(sorted)]
             front == SubSeq(sorted, 1, Len(sorted) - 1)
         IN IF Compare(last, x, filters) <= 0 THEN Append(sorted, x)
            ELSE Append(InsertSorted(front, x, filters), last)

\* Array.prototype.sort: a stable sort by the comparator.
RECURSIVE Sort(_, _)
Sort(list, filters) ==
    IF list = << >> THEN << >>
    ELSE InsertSorted(Sort(SubSeq(list, 1, Len(list) - 1), filters),
                      list[Len(list)], filters)

\* FirestoreTaskRepository.listAll
listAll == Docs

\* FirestoreTaskRepository.listByAssignee: where assigneeUserId == userId
listByAssignee(userId) ==
    SelectSeq(Docs, LAMBDA t : tasks[t].assigneeUserId = Some(userId))

\* FirestoreTaskRepository.searchAndFilter: the where clauses of the truthy
\* filters, the search on the lower-cased title and description, then the
\* sort.
searchAndFilter(filters) ==
    LET matches(t) ==
            /\ HasFilter(filters, "status")
                  => tasks[t].status = filters.status
            /\ HasFilter(filters, "priority")
                  => tasks[t].priority = filters.priority
            /\ HasFilter(filters, "assigneeUserId")
                  => tasks[t].assigneeUserId = Some(filters.assigneeUserId)
            /\ HasFilter(filters, "tag")
                  => \E i \in DOMAIN tasks[t].tags :
                        tasks[t].tags[i] = filters.tag
        found(t) ==
            HasFilter(filters, "searchQuery")
                => LET searchLower == toLowerCase(filters.searchQuery)
                   IN \/ includes(toLowerCase(tasks[t].title), searchLower)
                      \/ includes(toLowerCase(tasks[t].description),
                                  searchLower)
        list == SelectSeq(Docs, LAMBDA t : matches(t) /\ found(t))
    IN IF HasFilter(filters, "sortBy") THEN Sort(list, filters) ELSE list

\* The spread written after the member's id, so that the filters win.
memberFiltersSpreadLast(memberId, filters) ==
    filters @@ [assigneeUserId |-> memberId]

\* { ...filters, assigneeUserId: memberId }
memberFilters(memberId, filters) ==
    [assigneeUserId |-> memberId] @@ filters

\* The answer of a list call, kept with the call's arguments.
Listed(op, args, list) ==
    [op |-> op, outcome |-> OutcomeOk, args |-> args, tasks |-> list]

listTasksForAdmin(filters) ==
    /\ result' = Listed("listTasksForAdmin", << filters >>,
                        IF DOMAIN filters # {} THEN searchAndFilter(filters)
                        ELSE listAll)
    /\ UNCHANGED <<tasks, timeEntries, activities, clock>>

listTasksForMember(memberId, filters) ==
    /\ result' = Listed("listTasksForMember", << memberId, filters >>,
                        IF DOMAIN filters # {}
                        THEN searchAndFilter(memberFilters(memberId, filters))
                        ELSE listByAssignee(memberId))
    /\ UNCHANGED <<tasks, timeEntries, activities, clock>>

\* Filter objects: none, the query parameters of GET /api/tasks, and objects
\* that carry an assigneeUserId of their own.
ListFilters ==
    {<< >>}
    \cup {[status |-> v] : v \in {"TODO", "DONE"}}
    \cup {[priority |-> v] : v \in PriorityInputs}
    \cup {[tag |-> "a"], [searchQuery |-> "a"], [searchQuery |-> "B"],
          [searchQuery |-> "d"]}
    \cup {[sortBy |-> "dueDate"],
          [sortBy |-> "dueDate", sortOrder |-> "desc"]}
    \cup {[assigneeUserId |-> u] : u \in Users}
    \cup {[assigneeUserId |-> u, status |-> "TODO"] : u \in Users}

\* The tasks the lists are taken over: two titles, both priorities, with and
\* without a due date and a tag.
ListedTaskInputs ==
    {[title |-> "A", priority |-> "MEDIUM", dueDate |-> Null, tags |-> << >>],
     [title |-> "A", priority |-> "HIGH", dueDate |-> Some(ParseDate(1)),
      tags |-> <<"a">>],
     [title |-> "B", priority |-> "HIGH", dueDate |-> Null, tags |-> <<"a">>],
     [title |-> "B", priority |-> "MEDIUM", dueDate |-> Some(ParseDate(1)),
      tags |-> << >>]}

ListCreate ==
    /\ Cardinality(DOMAIN tasks) < MaxListedTasks
    /\ \E admin \in Admins, a \in AssigneeInputs, in \in ListedTaskInputs :
           createTask(admin, in.title, "D", a, in.priority, in.dueDate,
                      in.tags, NoFail)
    /\ UNCHANGED <<reqs, comments>>

ListForAdmin ==
    /\ \E filters \in ListFilters : listTasksForAdmin(filters)
    /\ UNCHANGED <<reqs, comments>>

ListForMember ==
    /\ \E m \in Users, filters \in ListFilters : listTasksForMember(m, filters)
    /\ UNCHANGED <<reqs, comments>>

NextList ==
    \/ ListCreate
    \/ ListForAdmin
    \/ ListForMember

SpecList == Init /\ [][NextList]_vars

\* ------------------------------------------------- comments and activity
MaxComments == 2

Comment(taskId, userId, text) ==
    [taskId |-> taskId, userId |-> userId, text |-> text]

\* The callers of the comment and activity endpoints: uid and role of the
\* authenticated user.
Callers ==
    {[uid |-> a, role |-> "ADMIN"] : a \in Admins}
    \cup {[uid |-> u, role |-> "MEMBER"] : u \in Users}

RECURSIVE Reverse(_)
Reverse(list) ==
    IF list = << >> THEN << >>
    ELSE << list[Len(list)] >> \o Reverse(SubSeq(list, 1, Len(list) - 1))

\* FirestoreCommentRepository.create: set under the comment's fresh id
CommentRepoCreate(list, comment) == Append(list, comment)

\* FirestoreCommentRepository.findByTaskId: orderBy createdAt asc
CommentsByTaskId(taskId) == SelectSeq(comments, LAMBDA c : c.taskId = taskId)

\* FirestoreActivityRepository.findByTaskId: orderBy createdAt desc
ActivitiesByTaskId(taskId) ==
    Reverse(SelectSeq(activities, LAMBDA a : a.taskId = taskId))

\* The access test with the exemption of role ADMIN left out.
MayAccessAsAssignee(task, userId, userRole) == IsAssignee(task, userId)

\* The negation of `userRole !== Role.ADMIN && task.assigneeUserId !== userId`
MayAccess(task, userId, userRole) ==
    userRole = "ADMIN" \/ IsAssignee(task, userId)

createComment(taskId, userId, userRole, text, failAt) ==
    LET res(o) == Result("createComment", o)
        acts == << Activity(taskId, "COMMENT_ADDED", "Added a comment",
                            userId) >>
    IN
    IF ~TaskExists(taskId) THEN
        /\ result' = res(ErrTaskNotFound)
        /\ UNCHANGED <<tasks, timeEntries, activities, clock, comments>>
    ELSE IF ~MayAccess(mapDocumentToTask(tasks[taskId]), userId, userRole) THEN
        /\ result' = res(ErrCommentForbidden)
        /\ UNCHANGED <<tasks, timeEntries, activities, clock, comments>>
    ELSE
        /\ comments' = CommentRepoCreate(comments,
                                         Comment(taskId, userId, text))
        /\ activities' = ActivityRepoCreate(activities,
                                             Emitted(acts, failAt))
        /\ result' = res(IF ActivityFailed(acts, failAt)
                         THEN ErrActivityWrite ELSE OutcomeOk)
        /\ UNCHANGED <<tasks, timeEntries, clock>>

listComments(taskId, userId, userRole) ==
    /\ result' =
          IF ~TaskExists(taskId)
          THEN Result("listComments", ErrTaskNotFound)
          ELSE IF ~MayAccess(mapDocumentToTask(tasks[taskId]), userId, userRole)
          THEN Result("listComments", ErrViewCommentsForbidden)
          ELSE [op |-> "listComments", outcome |-> OutcomeOk,
                items |-> CommentsByTaskId(taskId)]
    /\ UNCHANGED <<tasks, timeEntries, activities, clock, comments>>

listActivities(taskId, userId, userRole) ==
    /\ result' =
          IF ~TaskExists(taskId)
          THEN Result("listActivities", ErrTaskNotFound)
          ELSE IF ~MayAccess(mapDocumentToTask(tasks[taskId]), userId, userRole)
          THEN Result("listActivities", ErrViewActivitiesForbidden)
          ELSE [op |-> "listActivities", outcome |-> OutcomeOk,
                items |-> ActivitiesByTaskId(taskId)]
    /\ UNCHANGED <<tasks, timeEntries, activities, clock, comments>>

CommentTaskCreate ==
    /\ Cardinality(DOMAIN tasks) < MaxManagedTasks
    /\ \E admin \in Admins, a \in AssigneeInputs :
           createTask(admin, "A", "D", a, "MEDIUM", Null, << >>, NoFail)
    /\ UNCHANGED <<reqs, comments>>

CommentCreate ==
    /\ Len(comments) < MaxComments
    /\ \E t \in TaskIds, c \in Callers :
           createComment(t, c.uid, c.role, "hello", NoFail)
    /\ UNCHANGED reqs

CommentList ==
    /\ \E t \in TaskIds, c \in Callers : listComments(t, c.uid, c.role)
    /\ UNCHANGED reqs

ActivityList ==
    /\ \E t \in TaskIds, c \in Callers : listActivities(t, c.uid, c.role)
    /\ UNCHANGED reqs

NextComments ==
    \/ CommentTaskCreate
    \/ TaskAssign
    \/ CommentCreate
    \/ CommentList
    \/ ActivityList

SpecComments == Init /\ [][NextComments]_vars

\* --------------------------------------------------------- reports.service
\* The order of localeCompare on the user ids of the model.
UserOrder == <<"u1", "u2">>

localeCompare(a, b) ==
    LET at(u) == CHOOSE i \in DOMAIN UserOrder : UserOrder[i] = u
    IN at(a) - at(b)

\* The range query with an exclusive upper end.
StartsInRangeBefore(entry, from, to) ==
    from <= entry.startTime /\ entry.startTime < to

\* where startTime >= from, where startTime <= to
StartsInRange(entry, from, to) ==
    from <= entry.startTime /\ entry.startTime <= to

\* FirestoreTimeEntryRepository.listCompletedInRange: the ids of the entries
\* of the range query that have an endTime.
listCompletedInRange(entries, from, to) ==
    SelectSeq([i \in DOMAIN entries |-> i],
              LAMBDA i : /\ StartsInRange(entries[i], from, to)
                         /\ entries[i].endTime # Null)

\* entry.durationSeconds !== null && entry.durationSeconds > 0
HasDuration(entry) ==
    entry.durationSeconds # Null /\ entry.durationSeconds[1] > 0

TimeTotalByUser(userId, totalDurationSeconds) ==
    [userId |-> userId, totalDurationSeconds |-> totalDurationSeconds]

\* The loop filling the Map userTotals, as the list of its entries in
\* insertion order.
RECURSIVE Aggregate(_, _)
Aggregate(entries, ids) ==
    IF ids = << >> THEN << >>
    ELSE LET userTotals == Aggregate(entries, SubSeq(ids, 1, Len(ids) - 1))
             entry == entries[ids[Len(ids)]]
             at == {k \in DOMAIN userTotals :
                       userTotals[k].userId = entry.userId}
         IN IF ~HasDuration(entry) THEN userTotals
            ELSE IF at = {}
            THEN Append(userTotals,
                        TimeTotalByUser(entry.userId, entry.durationSeconds[1]))
            ELSE [k \in DOMAIN userTotals |->
                    IF k \in at
                    THEN TimeTotalByUser(entry.userId,
                             userTotals[k].totalDurationSeconds
                                 + entry.durationSeconds[1])
                    ELSE userTotals[k]]

RECURSIVE InsertTotal(_, _)
InsertTotal(sorted, x) ==
    IF sorted = << >> THEN << x >>
    ELSE LET last == sorted[Len(sorted)]
             front == SubSeq(sorted, 1, Len(sorted) - 1)
         IN IF localeCompare(last.userId, x.userId) <= 0 THEN Append(sorted, x)
            ELSE Append(InsertTotal(front, x), last)

\* .sort((a, b) => a.userId.localeCompare(b.userId))
RECURSIVE SortTotals(_)
SortTotals(list) ==
    IF list = << >> THEN << >>
    ELSE InsertTotal(SortTotals(SubSeq(list, 1, Len(list) - 1)),
                     list[Len(list)])

\* The report of a call, kept with the call's arguments.
TimeReportResult(from, to, totals) ==
    [op |-> "getTimeTotalsByUser", outcome |-> OutcomeOk, args |-> <<from, to>>,
     from |-> IsoDate(from), to |-> IsoDate(to), totals |-> totals]

getTimeTotalsByUser(from, to) ==
    /\ result' =
          IF from > to THEN Result("getTimeTotalsByUser", ErrInvalidRange)
          ELSE TimeReportResult(from, to,
                   SortTotals(Aggregate(timeEntries,
                       listCompletedInRange(timeEntries, from, to))))
    /\ UNCHANGED <<tasks, timeEntries, activities, clock>>

\* The instants the reports range over, and two instants of a later day at
\* which the clock is read: 1000 s and 1090 s.
ReportInstants == {0, 500, 1000000}
LaterInstants == {1000000, 1090000}

\* Time passes between two calls.
ClockAdvance ==
    /\ \E c \in LaterInstants : c > clock /\ clock' = c
    /\ UNCHANGED <<tasks, timeEntries, activities, result, reqs, comments>>

ReportCall ==
    /\ \E from \in ReportInstants, to \in ReportInstants :
           getTimeTotalsByUser(from, to)
    /\ UNCHANGED <<reqs, comments>>

\* An admin creates a task for a member.
ReportTaskCreate ==
    /\ \E admin \in Admins, u \in Users :
           createTask(admin, "A", "D", Some(u), "MEDIUM", Null, << >>, NoFail)
    /\ UNCHANGED <<reqs, comments>>

NextReports ==
    \/ ReportTaskCreate
    \/ ClockAdvance
    \/ StartTimeEntryCall
    \/ StopTimeEntryCall
    \/ ReportCall

SpecReports == Init /\ [][NextReports]_vars

\* ------------------------------------------------ failing activity writes
\* Every operation of the services, with the activities collection failing
\* at the k-th write of a call (k in FailPoints, NoFail for none).
MaxLoggedChanges == 1
MaxFailComments == 1

FailPoints == {NoFail, 1, 2}

\* A behaviour is followed up to its first failed activity write.
NoFailureYet == result.outcome # ErrActivityWrite

\* Admin patches: a title, a status.
FailPatches == {[title |-> "B"], [status |-> "IN_PROGRESS"]}

FailCreateTask ==
    /\ NoFailureYet
    /\ Cardinality(DOMAIN tasks) < MaxManagedTasks
    /\ \E admin \in Admins, u \in Users, failAt \in FailPoints :
           createTask(admin, "A", "D", Some(u), "MEDIUM", Null, << >>, failAt)
    /\ UNCHANGED <<reqs, comments>>

FailUpdateTaskAsAdmin ==
    /\ NoFailureYet
    /\ \E t \in TaskIds, p \in FailPatches, admin \in Admins,
          failAt \in FailPoints :
           updateTaskAsAdmin(t, p, admin, failAt)
    /\ WithinLog(MaxLoggedChanges)
    /\ UNCHANGED <<reqs, comments>>

FailAssignTask ==
    /\ NoFailureYet
    /\ \E t \in TaskIds, u \in Users, admin \in Admins, failAt \in FailPoints :
           assignTask(t, Some(u), admin, failAt)
    /\ WithinLog(MaxLoggedChanges)
    /\ UNCHANGED <<reqs, comments>>

FailUpdateTaskStatusAsMember ==
    /\ NoFailureYet
    /\ \E t \in TaskIds, m \in Users, v \in StatusInputs,
          failAt \in FailPoints :
           updateTaskStatusAsMember(t, m, v, failAt)
    /\ WithinLog(MaxLoggedChanges)
    /\ UNCHANGED <<reqs, comments>>

FailCompleteTask ==
    /\ NoFailureYet
    /\ \E t \in TaskIds, m \in Users, failAt \in FailPoints :
           completeTask(t, m, failAt)
    /\ WithinLog(MaxLoggedChanges)
    /\ UNCHANGED <<reqs, comments>>

FailStartTimeEntry ==
    /\ NoFailureYet
    /\ \E u \in Users, t \in TaskIds, failAt \in FailPoints :
           startTimeEntry(u, t, failAt)
    /\ UNCHANGED <<reqs, comments>>

FailStopTimeEntry ==
    /\ NoFailureYet
    /\ \E u \in Users, id \in TimeEntryIds, failAt \in FailPoints :
           stopTimeEntry(u, id, failAt)
    /\ UNCHANGED <<reqs, comments>>

FailCreateComment ==
    /\ NoFailureYet
    /\ Len(comments) < MaxFailComments
    /\ \E t \in TaskIds, c \in Callers, failAt \in FailPoints :
           createComment(t, c.uid, c.role, "hello", failAt)
    /\ UNCHANGED reqs

NextFailures ==
    \/ FailCreateTask
    \/ FailUpdateTaskAsAdmin
    \/ FailAssignTask
    \/ FailUpdateTaskStatusAsMember
    \/ FailCompleteTask
    \/ FailStartTimeEntry
    \/ FailStopTimeEntry
    \/ FailCreateComment

SpecFailures == Init /\ [][NextFailures]_vars

\* ------------------------------------------------------------ task creation
MaxCreatedTasks == 2
MaxTitleLength == 200
MaxDescriptionLength == 2000

RECURSIVE Repeat(_, _)
Repeat(str, n) ==
    IF n = 0 THEN ""
    ELSE LET half == Repeat(str, n \div 2)
         IN IF n % 2 = 0 THEN half \o half ELSE half \o half \o str

\* Titles and descriptions: empty, blank, short, of the greatest length
\* allowed and one character longer.
TitleInputs ==
    {"", " ", "A", Repeat("a", MaxTitleLength), Repeat("a", MaxTitleLength + 1)}

DescriptionInputs ==
    {"", "D", Repeat("d", MaxDescriptionLength),
     Repeat("d", MaxDescriptionLength + 1)}

\* String.prototype.trim on the inputs of the model, of which only the blank
\* one has white space.
trim(str) == IF str = " " THEN "" ELSE str

\* CreateTaskDTO.validate: the error it throws, OutcomeOk when it returns.
CreateTaskDTOValidate(title, description) ==
    IF title = "" \/ Len(trim(title)) = 0 THEN "Title is required"
    ELSE IF description = "" \/ Len(trim(description)) = 0
    THEN "Description is required"
    ELSE IF Len(title) > MaxTitleLength
    THEN "Title must be 200 characters or less"
    ELSE IF Len(description) > MaxDescriptionLength
    THEN "Description must be 2000 characters or less"
    ELSE OutcomeOk

\* taskController.create: POST /api/tasks.  A member's task is assigned to
\* the member, with the default priority, no due date and no tags.
taskControllerCreate(role, uid, title, description, assigneeUserId, failAt) ==
    IF CreateTaskDTOValidate(title, description) # OutcomeOk THEN
        /\ result' = Result("taskController.create",
                            CreateTaskDTOValidate(title, description))
        /\ UNCHANGED <<tasks, timeEntries, activities, clock>>
    ELSE IF role = "MEMBER" THEN
        createTask("self", title, description, Some(uid), "MEDIUM", Null,
                   << >>, failAt)
    ELSE
        createTask(uid, title, description, assigneeUserId, "MEDIUM", Null,
                   << >>, failAt)

\* The service called directly.
CreateDirect ==
    /\ Cardinality(DOMAIN tasks) < MaxCreatedTasks
    /\ \E admin \in Admins, title \in TitleInputs,
          description \in DescriptionInputs :
           createTask(admin, title, description, Null, "MEDIUM", Null, << >>,
                      NoFail)
    /\ UNCHANGED <<reqs, comments>>

\* The service called through the endpoint.
CreateRequest ==
    /\ Cardinality(DOMAIN tasks) < MaxCreatedTasks
    /\ \E c \in Callers, title \in TitleInputs,
          description \in DescriptionInputs :
           taskControllerCreate(c.role, c.uid, title, description, Null, NoFail)
    /\ UNCHANGED <<reqs, comments>>

NextCreate ==
    \/ CreateDirect
    \/ CreateRequest

SpecCreate == Init /\ [][NextCreate]_vars

\* -------------------------------------------------- member page (web client)
\* The handlers of MemberTasks.tsx write to Firestore themselves.  The page
\* reloads its tasks and its active entry after every action, so a handler
\* sees the store as it is.

\* Math.round(ms / 1000): the nearest integer, halves upwards.
MathRoundSeconds(ms) == (ms + 500) \div 1000

\* loadTasksFromFirestoreDirect: where assigneeUserId == uid
LoadedTasks(uid) == {t \in DOMAIN tasks : tasks[t].assigneeUserId = Some(uid)}

\* The updateDoc of a handler on the active entry.
WebStop(entry, now) ==
    [entry EXCEPT !.endTime = Some(now),
                  !.durationSeconds =
                      Some(MathRoundSeconds(now - entry.startTime))]

Handled(op, outcome) ==
    /\ result' = Result(op, outcome)
    /\ UNCHANGED activities

\* handleStopAndLog: `if (!user || !activeTimeEntry) return`, then the
\* entry is closed with the client's duration.
handleStopAndLog(uid) ==
    IF findActiveByUser(timeEntries, uid) = {} THEN
        /\ Handled("handleStopAndLog", OutcomeNull)
        /\ UNCHANGED <<tasks, timeEntries, clock>>
    ELSE \E id \in findActiveByUser(timeEntries, uid), now \in Nows :
        /\ timeEntries' = [timeEntries EXCEPT ![id] = WebStop(@, now)]
        /\ clock' = now
        /\ Handled("handleStopAndLog", OutcomeOk)
        /\ UNCHANGED tasks

\* The body shared by handleComplete and handleCompleteTask: the active entry
\* is closed when it is on the task, and the task is set to DONE.
WebComplete(op, uid, taskId) ==
    \E activeTimeEntry \in getActiveTimeEntry(timeEntries, uid), now \in Nows :
        /\ timeEntries' =
              IF activeTimeEntry # NoEntry
                 /\ timeEntries[activeTimeEntry].taskId = taskId
              THEN [timeEntries EXCEPT ![activeTimeEntry] = WebStop(@, now)]
              ELSE timeEntries
        /\ tasks' = [tasks EXCEPT ![taskId].status = "DONE"]
        /\ clock' = now
        /\ Handled(op, OutcomeOk)

\* handleComplete: on activeTask, the loaded task of the active entry.
handleComplete(uid) ==
    LET activeTask ==
            {t \in LoadedTasks(uid) :
                \E id \in findActiveByUser(timeEntries, uid) :
                    timeEntries[id].taskId = t}
    IN IF activeTask = {} THEN
           /\ Handled("handleComplete", OutcomeNull)
           /\ UNCHANGED <<tasks, timeEntries, clock>>
       ELSE \E t \in activeTask : WebComplete("handleComplete", uid, t)

\* handleCompleteTask: `tasks.find((t) => t.id === taskId)` on the loaded
\* tasks, `if (!task) return`.
handleCompleteTask(uid, taskId) ==
    IF taskId \notin LoadedTasks(uid) THEN
        /\ Handled("handleCompleteTask", OutcomeNull)
        /\ UNCHANGED <<tasks, timeEntries, clock>>
    ELSE WebComplete("handleCompleteTask", uid, taskId)

WebStopAndLog ==
    /\ \E u \in Users : handleStopAndLog(u)
    /\ UNCHANGED <<reqs, comments>>

WebCompleteActive ==
    /\ \E u \in Users : handleComplete(u)
    /\ UNCHANGED <<reqs, comments>>

WebCompleteTask ==
    /\ \E u \in Users, t \in TaskIds : handleCompleteTask(u, t)
    /\ UNCHANGED <<reqs, comments>>

NextStops ==
    \/ ReportTaskCreate
    \/ StartTimeEntryCall
    \/ StopTimeEntryCall
    \/ CompleteTaskCall
    \/ WebStopAndLog
    \/ WebCompleteActive
    \/ WebCompleteTask

SpecStops == Init /\ [][NextStops]_vars

\* ---------------------------------------------------------- concurrent stop
\* stopTimeEntry as the event loop runs it: the call is suspended at
\* timeEntryRepo.findById, timeEntryRepo.update and createActivity, and
\* another request may run in between.  A suspended call keeps the entry it
\* read and the time it read.
StopRequest(pc, userId, timeEntryId, timeEntry, now, outcome) ==
    [pc |-> pc, userId |-> userId, timeEntryId |-> timeEntryId,
     timeEntry |-> timeEntry, now |-> now, outcome |-> outcome]

StopReceive(r, userId, timeEntryId) ==
    /\ reqs[r].pc = "idle"
    /\ reqs' = [reqs EXCEPT ![r] =
                   StopRequest("findById", userId, timeEntryId, Null, 0, "")]
    /\ UNCHANGED <<tasks, timeEntries, activities, clock, result>>

\* findById resolves; the checks, `new Date()` and computeDurationSeconds
\* follow at once.
StopFindById(r) ==
    LET q == reqs[r]
        return(o) == /\ reqs' = [reqs EXCEPT ![r].pc = "done", ![r].outcome = o]
                     /\ result' = Result("stopTimeEntry", o)
    IN
    /\ q.pc = "findById"
    /\ IF ~TimeEntryExists(timeEntries, q.timeEntryId)
       THEN return(stopTimeEntryMissing) /\ UNCHANGED clock
       ELSE LET timeEntry == timeEntries[q.timeEntryId] IN
       IF ~IsOwner(timeEntry, q.userId)
       THEN return(ErrStopForbidden) /\ UNCHANGED clock
       ELSE IF IsStopped(timeEntry)
       THEN return(ErrAlreadyStopped) /\ UNCHANGED clock
       ELSE \E now \in Nows :
            /\ clock' = now
            /\ IF ~ensureStartBeforeEnd(timeEntry.startTime, now)
               THEN return(ErrStartBeforeEnd)
               ELSE /\ reqs' = [reqs EXCEPT ![r].pc = "update",
                                             ![r].timeEntry = Some(timeEntry),
                                             ![r].now = now]
                    /\ UNCHANGED result
    /\ UNCHANGED <<tasks, timeEntries, activities>>

\* timeEntryRepo.update resolves: the document exists, so endTime and
\* durationSeconds are written whatever the document holds by now.
StopUpdate(r) ==
    LET q == reqs[r]
        durationSeconds == computeDurationSeconds(q.timeEntry[1].startTime, q.now)
    IN
    /\ q.pc = "update"
    /\ timeEntries' = [timeEntries EXCEPT ![q.timeEntryId] =
                          TimeEntryRepoUpdate(@, q.now, durationSeconds)]
    /\ reqs' = [reqs EXCEPT ![r].pc = "log"]
    /\ UNCHANGED <<tasks, activities, clock, result>>

\* createActivity resolves and the call returns the updated entry.
StopLog(r) ==
    LET q == reqs[r]
        durationSeconds == computeDurationSeconds(q.timeEntry[1].startTime, q.now)
    IN
    /\ q.pc = "log"
    /\ activities' = ActivityRepoCreate(activities,
                        << Activity(q.timeEntry[1].taskId, "TIMER_STOPPED",
                                    StoppedMessage(durationSeconds), q.userId) >>)
    /\ reqs' = [reqs EXCEPT ![r].pc = "done", ![r].outcome = OutcomeOk]
    /\ result' = Result("stopTimeEntry", OutcomeOk)
    /\ UNCHANGED <<tasks, timeEntries, clock>>

StopReceiveStep ==
    /\ \E r \in Requests, u \in Users, id \in TimeEntryIds : StopReceive(r, u, id)
    /\ UNCHANGED comments

StopFindByIdStep ==
    /\ \E r \in Requests : StopFindById(r)
    /\ UNCHANGED comments

StopUpdateStep ==
    /\ \E r \in Requests : StopUpdate(r)
    /\ UNCHANGED comments

StopLogStep ==
    /\ \E r \in Requests : StopLog(r)
    /\ UNCHANGED comments

\* The entries the concurrent stops compete for.
MaxRacedEntries == 1

RacedStart ==
    /\ Len(timeEntries) < MaxRacedEntries
    /\ StartTimeEntryCall

NextStopRace ==
    \/ ReportTaskCreate
    \/ RacedStart
    \/ CompleteTaskCall
    \/ StopReceiveStep
    \/ StopFindByIdStep
    \/ StopUpdateStep
    \/ StopLogStep

SpecStopRace == Init /\ [][NextStopRace]_vars

\* ------------------------------------------------- stopping after a change
\* Timers beside the admin's changes to the task: reassigning, unassigning,
\* setting DONE.  The clock of the model ends at MaxClock, so an entry is
\* started while time is left to stop it.
EarlyStart ==
    /\ StartTimeEntryCall
    /\ \E d \in TickSteps : clock' + d <= MaxClock

AdminSetsDone ==
    /\ \E t \in TaskIds, admin \in Admins :
           updateTaskAsAdmin(t, [status |-> "DONE"], admin, NoFail)
    /\ WithinLog(MaxActivities)
    /\ UNCHANGED <<reqs, comments>>

\* The owner's stopTimeEntry call that finds the entry active.
OwnerStop(id) ==
    /\ TimeEntryExists(timeEntries, id)
    /\ ~IsStopped(timeEntries[id])
    /\ stopTimeEntry(timeEntries[id].userId, id, NoFail)
    /\ UNCHANGED <<reqs, comments>>

NextOwnerStop ==
    \/ ReportTaskCreate
    \/ AssignTaskCall
    \/ AdminSetsDone
    \/ EarlyStart
    \/ StopTimeEntryCall

\* Requests are served and time passes: the owner's stop request for an
\* active entry is eventually answered at a time after the entry's start.
SpecOwnerStop ==
    /\ Init
    /\ [][NextOwnerStop]_vars
    /\ \A id \in TimeEntryIds :
          WF_vars(OwnerStop(id) /\ timeEntries'[id].endTime # Null)

\* ================================================================= claims
\* C1: under sequential execution (every service call runs to completion
\* before the next begins) every user has at most one time entry whose
\* endTime is null, in every reachable state.
C1_SingleActiveTimer ==
    \A u \in Users :
        Cardinality({i \in DOMAIN timeEntries :
                        /\ timeEntries[i].userId = u
                        /\ timeEntries[i].endTime = <<>>}) <= 1

\* A user who stopped one timer and started another: two entries of the
\* same user, one stopped, one active.
C1_Witness ==
    \E u \in Users : \E i, j \in DOMAIN timeEntries :
        /\ i # j
        /\ timeEntries[i].userId = u /\ timeEntries[j].userId = u
        /\ timeEntries[i].endTime # <<>>
        /\ timeEntries[j].endTime = <<>>

\* C2 (P1): when user u holds an active entry (a start succeeded and the
\* entry was not stopped since), startTimeEntry(u, t) on any task t assigned
\* to u, the task of the active entry or another, throws 'You already have
\* an active time entry. Please stop it first.' and creates no entry.
C2_SecondStartConflicts ==
    [][\A u \in Users, t \in TaskIds :
        ( /\ t \in DOMAIN tasks
          /\ tasks[t].assigneeUserId = <<u>>
          /\ \E i \in DOMAIN timeEntries :
                timeEntries[i].userId = u /\ timeEntries[i].endTime = <<>>
          /\ startTimeEntry(u, t, NoFail) )
        => /\ result' = [op |-> "startTimeEntry", outcome |->
                "You already have an active time entry. Please stop it first."]
           /\ timeEntries' = timeEntries
           /\ activities' = activities]_vars

\* The conflict was returned to a user whose single entry is active on t1
\* while both tasks are assigned to that user.
C2_Witness ==
    /\ result = [op |-> "startTimeEntry", outcome |->
            "You already have an active time entry. Please stop it first."]
    /\ Len(timeEntries) = 1
    /\ timeEntries[1].endTime = <<>>
    /\ timeEntries[1].taskId = "t1"
    /\ DOMAIN tasks = {"t1", "t2"}
    /\ \A t \in DOMAIN tasks :
          tasks[t].assigneeUserId = <<timeEntries[1].userId>>

\* C3: two startTimeEntry requests of the same user that both got an empty
\* answer from findActiveByUser are both carried through: each create adds
\* an active entry whatever the store holds by then, so that after both
\* creates the user has two active entries.
C3_StartRace ==
    \A r1, r2 \in Requests :
        LET passed(r) == \/ reqs[r].pc \in {"create", "log"}
                         \/ reqs[r].pc = "done" /\ reqs[r].outcome = "ok"
            created(r) == passed(r) /\ reqs[r].pc # "create"
        IN ( /\ r1 # r2
             /\ reqs[r1].userId = reqs[r2].userId
             /\ passed(r1) /\ passed(r2) )
           => Cardinality({i \in DOMAIN timeEntries :
                            /\ timeEntries[i].userId = reqs[r1].userId
                            /\ timeEntries[i].endTime = <<>>})
                = Cardinality({r \in {r1, r2} : created(r)})

\* Both requests of one user returned their entry and the user has two
\* active entries.
C3_Witness ==
    \E u \in Users :
        /\ \A r \in Requests :
              /\ reqs[r].userId = u
              /\ reqs[r].pc = "done"
              /\ reqs[r].outcome = "ok"
        /\ Cardinality({i \in DOMAIN timeEntries :
                          /\ timeEntries[i].userId = u
                          /\ timeEntries[i].endTime = <<>>}) = 2

\* C4 (P2): startTimeEntry(u, t) on an existing task whose assigneeUserId is
\* not u, null included, throws the Forbidden error and creates no entry.
C4_StartForbidden ==
    [][\A u \in Users, t \in TaskIds :
        ( /\ t \in DOMAIN tasks
          /\ tasks[t].assigneeUserId # <<u>>
          /\ startTimeEntry(u, t, NoFail) )
        => /\ result' = [op |-> "startTimeEntry", outcome |->
                "Forbidden: You can only start timer for tasks assigned to you"]
           /\ timeEntries' = timeEntries]_vars

\* Forbidden was thrown while every task is unassigned, and no entry exists.
C4_Witness ==
    /\ result = [op |-> "startTimeEntry", outcome |->
            "Forbidden: You can only start timer for tasks assigned to you"]
    /\ DOMAIN tasks # {}
    /\ \A t \in DOMAIN tasks : tasks[t].assigneeUserId = <<>>
    /\ timeEntries = << >>

\* C5: startTimeEntry checks task existence, then the assignee, then the
\* active entry: a user with an active entry gets 'Task not found' for a
\* missing task, Forbidden for a task not assigned to them, and the conflict
\* error only for an existing task assigned to them.
C5_StartCheckOrder ==
    [][\A u \in Users, t \in TaskIds :
        ( /\ \E i \in DOMAIN timeEntries :
                timeEntries[i].userId = u /\ timeEntries[i].endTime = <<>>
          /\ startTimeEntry(u, t, NoFail) )
        => /\ result'.op = "startTimeEntry"
           /\ result'.outcome =
                IF t \notin DOMAIN tasks THEN "Task not found"
                ELSE IF tasks[t].assigneeUserId # <<u>>
                THEN "Forbidden: You can only start timer for tasks assigned to you"
                ELSE "You already have an active time entry. Please stop it first."
           /\ timeEntries' = timeEntries]_vars

\* 'Task not found' was thrown while every user holds an active entry and a
\* task id is unused.
C5_Witness ==
    /\ result = [op |-> "startTimeEntry", outcome |-> "Task not found"]
    /\ DOMAIN tasks # TaskIds
    /\ \A u \in Users : \E i \in DOMAIN timeEntries :
          timeEntries[i].userId = u /\ timeEntries[i].endTime = <<>>

\* C6 (P3): when the owner stops an active entry started at T0 and the
\* clock reads T1 > T0, the entry gets endTime = T1 and durationSeconds =
\* floor((T1 - T0) / 1000); every stopTimeEntry by the owner on an entry that
\* is already stopped throws 'Time entry is already stopped' and leaves the
\* entries as they are.
C6_StopDuration ==
    [][\A u \in Users, id \in TimeEntryIds :
        ( /\ id \in DOMAIN timeEntries
          /\ timeEntries[id].userId = u
          /\ stopTimeEntry(u, id, NoFail) )
        => IF timeEntries[id].endTime # <<>>
           THEN /\ result' = [op |-> "stopTimeEntry", outcome |->
                                 "Time entry is already stopped"]
                /\ timeEntries' = timeEntries
           ELSE clock' > timeEntries[id].startTime
                => LET d == clock' - timeEntries[id].startTime
                       floor == CHOOSE k \in 0..d :
                                   k * 1000 <= d /\ d < (k + 1) * 1000
                   IN /\ result' = [op |-> "stopTimeEntry", outcome |-> "ok"]
                      /\ timeEntries'[id].endTime = <<clock'>>
                      /\ timeEntries'[id].durationSeconds = <<floor>>
                      /\ timeEntries'[id].startTime = timeEntries[id].startTime
       ]_vars

\* The retry was refused on an entry stopped half a second after its start,
\* stored with a duration of 0 seconds.
C6_Witness ==
    /\ result = [op |-> "stopTimeEntry", outcome |->
                    "Time entry is already stopped"]
    /\ Len(timeEntries) = 1
    /\ timeEntries[1].endTime = <<timeEntries[1].startTime + 500>>
    /\ timeEntries[1].durationSeconds = <<0>>

\* C7: a time entry whose endTime is not null keeps its startTime, endTime
\* and durationSeconds and stays in the collection through every service
\* call.
C7_StoppedIsTerminal ==
    [][\A i \in DOMAIN timeEntries :
        timeEntries[i].endTime # <<>>
        => /\ i \in DOMAIN timeEntries'
           /\ timeEntries'[i].startTime = timeEntries[i].startTime
           /\ timeEntries'[i].endTime = timeEntries[i].endTime
           /\ timeEntries'[i].durationSeconds = timeEntries[i].durationSeconds
       ]_vars

\* A stop was attempted on a stopped entry after the clock moved past its
\* endTime, and the entry still ends where it did.
C7_Witness ==
    /\ result.op = "stopTimeEntry"
    /\ \A i \in DOMAIN timeEntries : timeEntries[i].endTime # <<>>
    /\ \E i \in DOMAIN timeEntries : timeEntries[i].endTime[1] < clock

\* C8: in every reachable state an entry has endTime = null exactly when it
\* has durationSeconds = null.
C8_EndTimeIffDuration ==
    \A i \in DOMAIN timeEntries :
        (timeEntries[i].endTime = <<>>) <=> (timeEntries[i].durationSeconds = <<>>)

\* completeTask stopped the member's timer while another entry is active:
\* one entry with both fields set, one with both null.
C8_Witness ==
    /\ result.op = "completeTask"
    /\ result.outcome = "ok"
    /\ \E i, j \in DOMAIN timeEntries :
          /\ timeEntries[i].endTime # <<>>
          /\ timeEntries[i].durationSeconds # <<>>
          /\ tasks[timeEntries[i].taskId].status = "DONE"
          /\ timeEntries[j].endTime = <<>>
          /\ timeEntries[j].durationSeconds = <<>>

\* C9 (P4): stopTimeEntry(u2, e) on an existing entry of another user throws
\* the Forbidden error whether the entry is active or stopped, changes no
\* entry and emits no activity.
C9_StopForbidden ==
    [][\A u \in Users, id \in TimeEntryIds :
        ( /\ id \in DOMAIN timeEntries
          /\ timeEntries[id].userId # u
          /\ stopTimeEntry(u, id, NoFail) )
        => /\ result' = [op |-> "stopTimeEntry", outcome |->
                "Forbidden: You can only stop your own time entries"]
           /\ timeEntries' = timeEntries
           /\ activities' = activities]_vars

\* Forbidden was thrown while the only entry is already stopped.
C9_Witness ==
    /\ result = [op |-> "stopTimeEntry", outcome |->
            "Forbidden: You can only stop your own time entries"]
    /\ Len(timeEntries) = 1
    /\ timeEntries[1].endTime # <<>>

\* C10: stopTimeEntry(userId, id) with an id no entry has returns null for
\* any user, changes no entry and emits no activity.
C10_StopUnknownId ==
    [][\A u \in Users, id \in TimeEntryIds :
        ( /\ id \notin DOMAIN timeEntries
          /\ stopTimeEntry(u, id, NoFail) )
        => /\ result' = [op |-> "stopTimeEntry", outcome |-> "null"]
           /\ timeEntries' = timeEntries
           /\ activities' = activities]_vars

\* null was returned for an unknown id while an active entry exists.
C10_Witness ==
    /\ result = [op |-> "stopTimeEntry", outcome |-> "null"]
    /\ Len(timeEntries) = 1
    /\ timeEntries[1].endTime = <<>>

\* C11: stopTimeEntry by the owner of an active entry succeeds only when
\* startTime is strictly before the value the clock reads; when startTime is
\* not before it (a stop in the millisecond of the start) the call throws
\* 'Start time must be before end time', the entry keeps endTime and
\* durationSeconds null and no activity is emitted.
C11_StopTimeGuard ==
    [][\A u \in Users, id \in TimeEntryIds :
        ( /\ id \in DOMAIN timeEntries
          /\ timeEntries[id].userId = u
          /\ timeEntries[id].endTime = <<>>
          /\ stopTimeEntry(u, id, NoFail) )
        => IF timeEntries[id].startTime < clock'
           THEN /\ result' = [op |-> "stopTimeEntry", outcome |-> "ok"]
                /\ timeEntries'[id].endTime # <<>>
           ELSE /\ result' = [op |-> "stopTimeEntry", outcome |->
                                 "Start time must be before end time"]
                /\ timeEntries' = timeEntries
                /\ timeEntries'[id].endTime = <<>>
                /\ timeEntries'[id].durationSeconds = <<>>
                /\ activities' = activities
       ]_vars

\* The guard refused a stop in the millisecond of the start: the only entry
\* is active and starts at the clock value.
C11_Witness ==
    /\ result = [op |-> "stopTimeEntry", outcome |->
                    "Start time must be before end time"]
    /\ Len(timeEntries) = 1
    /\ timeEntries[1].startTime = clock
    /\ timeEntries[1].endTime = <<>>
    /\ \A i \in DOMAIN activities : activities[i].type # "TIMER_STOPPED"

\* C13: completeTask(taskId, memberId) throws 'Task not found' when the task
\* is missing and the Forbidden error when the task exists with another
\* assignee or none; in both cases no time entry is stopped, no task changes
\* and no activity is emitted.
C13_CompleteRejects ==
    [][\A t \in TaskIds, m \in Users :
        ( /\ t \notin DOMAIN tasks \/ tasks[t].assigneeUserId # <<m>>
          /\ completeTask(t, m, NoFail) )
        => /\ result' = [op |-> "completeTask", outcome |->
                IF t \notin DOMAIN tasks THEN "Task not found"
                ELSE "Forbidden: You can only complete tasks assigned to you"]
           /\ timeEntries' = timeEntries
           /\ tasks' = tasks
           /\ activities' = activities]_vars

\* Forbidden was thrown while a timer runs on the only task, which is not
\* DONE: the caller was not its assignee.
C13_Witness ==
    /\ result = [op |-> "completeTask", outcome |->
            "Forbidden: You can only complete tasks assigned to you"]
    /\ DOMAIN tasks = {"t1"}
    /\ tasks["t1"].status = "TODO"
    /\ Len(timeEntries) = 1
    /\ timeEntries[1].endTime = <<>>

\* C14: completeTask(taskId, m) by the assignee stops m's active entry
\* before it writes DONE exactly when the entry is on taskId: then the call
\* succeeds only if the stop does, the entry is stopped and returned, the
\* TIMER_STOPPED record precedes the 'Task completed' record, and m has no
\* active entry on the task; when the stop throws the task is left as it
\* was.  An active entry on another task, or none, leaves the entries as
\* they are, stoppedTimeEntry is null and the task is DONE.
C14_CompleteStopsTimer ==
    [][\A t \in TaskIds, m \in Users :
        ( /\ t \in DOMAIN tasks
          /\ tasks[t].assigneeUserId = <<m>>
          /\ completeTask(t, m, NoFail) )
        => LET onTask == {i \in DOMAIN timeEntries :
                            /\ timeEntries[i].userId = m
                            /\ timeEntries[i].endTime = <<>>
                            /\ timeEntries[i].taskId = t}
               n == Len(activities')
           IN
           IF onTask = {}
           THEN /\ result' = [op |-> "completeTask", outcome |-> "ok",
                              stoppedTimeEntry |-> 0]
                /\ timeEntries' = timeEntries
                /\ tasks'[t].status = "DONE"
                /\ n = Len(activities) + 1
           ELSE \A i \in onTask :
                IF timeEntries[i].startTime < clock'
                THEN /\ result' = [op |-> "completeTask", outcome |-> "ok",
                                   stoppedTimeEntry |-> i]
                     /\ timeEntries'[i].endTime = <<clock'>>
                     /\ tasks'[t].status = "DONE"
                     /\ n = Len(activities) + 2
                     /\ activities'[n - 1].type = "TIMER_STOPPED"
                     /\ activities'[n].message = "Task completed"
                     /\ ~ \E j \in DOMAIN timeEntries' :
                            /\ timeEntries'[j].userId = m
                            /\ timeEntries'[j].taskId = t
                            /\ timeEntries'[j].endTime = <<>>
                ELSE /\ result'.op = "completeTask"
                     /\ result'.outcome # "ok"
                     /\ tasks' = tasks
                     /\ timeEntries' = timeEntries
       ]_vars

\* A member with a running timer on one task completed the other one: the
\* call returned no stopped entry and the timer still runs.
C14_Witness ==
    /\ result = [op |-> "completeTask", outcome |-> "ok", stoppedTimeEntry |-> 0]
    /\ Len(timeEntries) = 1
    /\ timeEntries[1].endTime = <<>>
    /\ \E t \in DOMAIN tasks :
          /\ t # timeEntries[1].taskId
          /\ tasks[t].status = "DONE"
          /\ tasks[t].assigneeUserId = <<timeEntries[1].userId>>
    /\ tasks[timeEntries[1].taskId].status = "TODO"

\* C12 (P5): updateTaskStatusAsMember(taskId, m, status) returns null
\* exactly when the task does not exist; on an existing task whose assignee
\* is not m (unassigned included) it throws the Forbidden error and changes
\* nothing; otherwise it succeeds, stores the status, whatever the status was
\* before, and leaves assigneeUserId as it was.
C12_MemberStatusUpdate ==
    [][\A t \in TaskIds, m \in Users, v \in {"TODO", "IN_PROGRESS", "DONE"} :
        updateTaskStatusAsMember(t, m, v, NoFail)
        => IF t \notin DOMAIN tasks
           THEN /\ result' = [op |-> "updateTaskStatusAsMember",
                              outcome |-> "null"]
                /\ tasks' = tasks /\ activities' = activities
           ELSE IF tasks[t].assigneeUserId # <<m>>
           THEN /\ result' = [op |-> "updateTaskStatusAsMember", outcome |->
                    "Forbidden: You can only update status of tasks assigned to you"]
                /\ tasks' = tasks /\ activities' = activities
           ELSE /\ result' = [op |-> "updateTaskStatusAsMember",
                              outcome |-> "ok"]
                /\ tasks'[t].status = v
                /\ tasks'[t].assigneeUserId = tasks[t].assigneeUserId
       ]_vars

\* The assignee moved the task to DONE and then back to TODO.
C12_Witness ==
    /\ result = [op |-> "updateTaskStatusAsMember", outcome |-> "ok"]
    /\ Len(activities) >= 2
    /\ LET n == Len(activities) IN
          /\ activities[n].message = "Status changed to TODO"
          /\ activities[n - 1].message = "Status changed to DONE"
          /\ activities[n].actorUserId \in Users
          /\ tasks[activities[n].taskId].status = "TODO"
          /\ tasks[activities[n].taskId].assigneeUserId
                = <<activities[n].actorUserId>>

\* C15: updateTaskAsAdmin on an existing task emits, for each of status,
\* assigneeUserId, priority, dueDate and tags, the matching activity if and
\* only if the patch carries the field with a value different from the
\* stored one; a patch whose dueDate equals the stored dueDate emits no
\* TASK_DUE_DATE_CHANGED.
C15_ActivityIffChanged ==
    [][\A t \in TaskIds, p \in PatchesRich :
        ( /\ t \in DOMAIN tasks
          /\ updateTaskAsAdmin(t, p, "admin", NoFail) )
        => LET added == {activities'[i].type :
                            i \in (Len(activities) + 1)..Len(activities')}
               typeOf == [status |-> "TASK_STATUS_CHANGED",
                          assigneeUserId |-> "TASK_ASSIGNED",
                          priority |-> "TASK_PRIORITY_CHANGED",
                          dueDate |-> "TASK_DUE_DATE_CHANGED",
                          tags |-> "TASK_TAGS_CHANGED"]
           IN /\ \A f \in DOMAIN typeOf :
                    (typeOf[f] \in added)
                        <=> ( /\ f \in DOMAIN p
                              /\ p[f] # IF tasks[t][f] = <<"">> THEN <<>>
                                        ELSE tasks[t][f] )
              /\ Len(activities') - Len(activities) = Cardinality(added)
       ]_vars

\* C16: an update request of an admin changes only the fields it mentions:
\* every field the request body omits keeps its stored value (a body without
\* dueDate leaves dueDate as it was), and a field the body carries, null
\* included, is stored as given.
C16_PartialUpdate ==
    [][\A t \in TaskIds, body \in UpdateBodies :
        ( /\ t \in DOMAIN tasks
          /\ taskControllerUpdate("ADMIN", "admin", t, body, NoFail) )
        => \A f \in DOMAIN tasks[t] :
              IF f \in DOMAIN body
              THEN tasks'[t][f] =
                      IF f = "dueDate" /\ body[f] # <<>>
                      THEN <<body[f][1] * 86400000>> ELSE body[f]
              ELSE tasks'[t][f] = tasks[t][f]
       ]_vars

\* C17: assignTask(taskId, assignee, actor) on an existing task stores the
\* given assignee (null unassigns), leaves the other fields alone and emits
\* exactly one TASK_ASSIGNED activity, also when the assignee is the one
\* already stored; its message is 'Unassigned' for null and names the user
\* otherwise.  On a missing task it returns null and emits nothing.
C17_AssignTask ==
    [][\A t \in TaskIds, a \in AssigneeInputs :
        assignTask(t, a, "admin", NoFail)
        => IF t \notin DOMAIN tasks
           THEN /\ result' = [op |-> "assignTask", outcome |-> "null"]
                /\ tasks' = tasks
                /\ activities' = activities
           ELSE LET n == Len(activities') IN
                /\ result' = [op |-> "assignTask", outcome |-> "ok"]
                /\ tasks'[t].assigneeUserId = a
                /\ \A f \in DOMAIN tasks[t] \ {"assigneeUserId"} :
                      tasks'[t][f] = tasks[t][f]
                /\ n = Len(activities) + 1
                /\ SubSeq(activities', 1, n - 1) = activities
                /\ activities'[n].type = "TASK_ASSIGNED"
                /\ activities'[n].taskId = t
                /\ a = <<>> => activities'[n].message = "Unassigned"
                /\ \A u \in Users :
                      a = <<u>> => activities'[n].message
                                      = "Assigned to user " \o u
       ]_vars

\* The task was assigned to the user it was created for: two successive
\* TASK_ASSIGNED records with the same message.
C17_Witness ==
    /\ result = [op |-> "assignTask", outcome |-> "ok"]
    /\ Len(activities) = 3
    /\ activities[1].type = "TASK_CREATED"
    /\ activities[2].type = "TASK_ASSIGNED"
    /\ activities[3].type = "TASK_ASSIGNED"
    /\ activities[2].message = "Assigned to user u1"
    /\ activities[3].message = "Assigned to user u1"

\* C18 as stated: createTask stores a task with status TODO and the given
\* assignee and emits one TASK_CREATED activity, followed by one
\* TASK_ASSIGNED activity if and only if the assignee is not null.
C18_CreateTaskNonNull ==
    [][\A a \in AssigneeInputs, d \in {<<>>, <<86400000>>} :
        createTask("admin", "A", "D", a, "MEDIUM", d, << >>, NoFail)
        => \E id \in DOMAIN tasks' \ DOMAIN tasks :
              /\ tasks'[id].status = "TODO"
              /\ tasks'[id].assigneeUserId = a
              /\ LET new == SubSeq(activities', Len(activities) + 1,
                                   Len(activities'))
                 IN [i \in DOMAIN new |-> new[i].type]
                      = IF a # <<>> THEN <<"TASK_CREATED", "TASK_ASSIGNED">>
                        ELSE <<"TASK_CREATED">>
       ]_vars

\* C18 amended: the TASK_ASSIGNED activity follows if and only if the
\* assignee is neither null nor the empty string.
C18_CreateTask ==
    [][\A a \in AssigneeInputs, d \in {<<>>, <<86400000>>} :
        createTask("admin", "A", "D", a, "MEDIUM", d, << >>, NoFail)
        => \E id \in DOMAIN tasks' \ DOMAIN tasks :
              /\ DOMAIN tasks' = DOMAIN tasks \cup {id}
              /\ tasks'[id].status = "TODO"
              /\ tasks'[id].assigneeUserId = a
              /\ LET new == SubSeq(activities', Len(activities) + 1,
                                   Len(activities'))
                 IN /\ [i \in DOMAIN new |-> new[i].type]
                        = IF a \notin {<<>>, <<"">>}
                          THEN <<"TASK_CREATED", "TASK_ASSIGNED">>
                          ELSE <<"TASK_CREATED">>
                    /\ \A i \in DOMAIN new : new[i].taskId = id
       ]_vars

\* A task was created with the empty string as assignee: it is stored as
\* given and TASK_CREATED is the only record.
C18_Witness ==
    /\ result = [op |-> "createTask", outcome |-> "ok"]
    /\ DOMAIN tasks = {"t1"}
    /\ tasks["t1"].assigneeUserId = <<"">>
    /\ tasks["t1"].status = "TODO"
    /\ Len(activities) = 1
    /\ activities[1].type = "TASK_CREATED"

\* C19: listTasksForMember(memberId, filters) returns only tasks whose
\* assigneeUserId is memberId, for every filter object, one that carries the
\* assigneeUserId of another user included.
C19_MemberListsOwnTasks ==
    [][\A m \in Users, filters \in ListFilters :
        listTasksForMember(m, filters)
        => /\ result'.op = "listTasksForMember"
           /\ \A i \in DOMAIN result'.tasks :
                 /\ result'.tasks[i] \in DOMAIN tasks
                 /\ tasks[result'.tasks[i]].assigneeUserId = <<m>>
       ]_vars

\* Member u1 listed with a filter object naming u2 while u2 has a task of
\* their own: the answer is u1's task alone.
C19_Witness ==
    /\ result.op = "listTasksForMember"
    /\ result.args = << "u1", [assigneeUserId |-> "u2"] >>
    /\ DOMAIN tasks = {"t1", "t2"}
    /\ tasks["t1"].assigneeUserId = <<"u1">>
    /\ tasks["t2"].assigneeUserId = <<"u2">>
    /\ result.tasks = <<"t1">>

\* C20: createComment, listComments and listActivities fail with 'Task not
\* found' on a missing task whatever the caller's role; on an existing task
\* role ADMIN is always served and role MEMBER exactly when the task's
\* assignee is the caller, otherwise the call fails with its Forbidden error.
\* A failed call writes no comment and no activity, the lists write nothing,
\* and a served createComment writes one comment and one COMMENT_ADDED record.
C20_CommentActivityAccess ==
    [][\A t \in TaskIds, c \in Callers :
        LET permitted == c.role = "ADMIN" \/ tasks[t].assigneeUserId = <<c.uid>>
            unchanged == /\ comments' = comments
                         /\ activities' = activities
                         /\ tasks' = tasks
            outcome(forbidden) ==
                IF t \notin DOMAIN tasks THEN "Task not found"
                ELSE IF permitted THEN "ok" ELSE forbidden
        IN
        /\ createComment(t, c.uid, c.role, "hello", NoFail)
           => /\ result'.op = "createComment"
              /\ result'.outcome = outcome(
                    "Forbidden: You can only comment on tasks assigned to you")
              /\ IF result'.outcome = "ok"
                 THEN /\ comments' = Append(comments,
                            [taskId |-> t, userId |-> c.uid, text |-> "hello"])
                      /\ Len(activities') = Len(activities) + 1
                      /\ activities'[Len(activities')].type = "COMMENT_ADDED"
                      /\ activities'[Len(activities')].taskId = t
                      /\ tasks' = tasks
                 ELSE unchanged
        /\ listComments(t, c.uid, c.role)
           => /\ result'.op = "listComments"
              /\ result'.outcome = outcome(
                    "Forbidden: You can only view comments on tasks assigned to you")
              /\ unchanged
        /\ listActivities(t, c.uid, c.role)
           => /\ result'.op = "listActivities"
              /\ result'.outcome = outcome(
                    "Forbidden: You can only view activities on tasks assigned to you")
              /\ unchanged
       ]_vars

\* The admin and the assignee u1 have each commented on task t1, and then a
\* member who is not the assignee was refused the list of its comments.
C20_Witness ==
    /\ result = [op |-> "listComments",
                 outcome |-> "Forbidden: You can only view comments on tasks assigned to you"]
    /\ "t1" \in DOMAIN tasks
    /\ tasks["t1"].assigneeUserId = <<"u1">>
    /\ Len(comments) = 2
    /\ comments[1].userId = "admin"
    /\ comments[2].userId = "u1"

\* C21: getTimeTotalsByUser(from, to) fails when from > to and accepts
\* from = to; otherwise the totals list, in ascending order of userId, exactly
\* the users that have a stopped entry with from <= startTime <= to and a
\* positive duration, each with the sum of the durations of those entries.
\* Active entries, entries outside the range and entries of duration zero add
\* nothing.
C21_ReportTotals ==
    [][\A from \in ReportInstants, to \in ReportInstants :
        getTimeTotalsByUser(from, to)
        => IF from > to
           THEN result' = [op |-> "getTimeTotalsByUser",
                           outcome |-> "Invalid date range: \"from\" date must be before or equal to \"to\" date"]
           ELSE LET counted(u) ==
                        {i \in DOMAIN timeEntries :
                            /\ timeEntries[i].userId = u
                            /\ timeEntries[i].endTime # <<>>
                            /\ from <= timeEntries[i].startTime
                            /\ timeEntries[i].startTime <= to
                            /\ timeEntries[i].durationSeconds # <<>>
                            /\ timeEntries[i].durationSeconds[1] > 0}
                    RECURSIVE sum(_)
                    sum(ids) ==
                        IF ids = {} THEN 0
                        ELSE LET i == CHOOSE j \in ids : TRUE
                             IN timeEntries[i].durationSeconds[1]
                                    + sum(ids \ {i})
                    listed == SelectSeq(<<"u1", "u2">>,
                                        LAMBDA u : counted(u) # {})
                IN /\ result'.outcome = "ok"
                   /\ Len(result'.totals) = Len(listed)
                   /\ \A k \in DOMAIN listed :
                         result'.totals[k]
                            = [userId |-> listed[k],
                               totalDurationSeconds |-> sum(counted(listed[k]))]
       ]_vars

\* A report over [0, 500] while u1 has a stopped entry of one second that
\* began at 0 and u2 a stopped entry of duration zero: u1 alone is listed.
C21_Witness ==
    /\ result.op = "getTimeTotalsByUser"
    /\ result.outcome = "ok"
    /\ result.args = <<0, 500>>
    /\ result.totals = << [userId |-> "u1", totalDurationSeconds |-> 1] >>
    /\ \E i \in DOMAIN timeEntries :
          /\ timeEntries[i].userId = "u2"
          /\ timeEntries[i].durationSeconds = <<0>>
          /\ timeEntries[i].startTime <= 500

\* C23: the scenario from creation to report.  An admin's createTask for
\* member m leaves exactly a TASK_CREATED and a TASK_ASSIGNED record on the
\* task; m's startTimeEntry at 1000 s yields an active entry; stopping it at
\* 1090 s records durationSeconds 90 and a TIMER_STOPPED record with the
\* message 'Stopped timer (1m 30s)'; a report over a range that contains the
\* start then lists exactly m with 90 seconds.
C23_Scenario ==
    [][\A m \in Users :
        LET started == [taskId |-> "t1", userId |-> m, startTime |-> 1000000,
                        endTime |-> <<>>, durationSeconds |-> <<>>]
            stopped == [taskId |-> "t1", userId |-> m, startTime |-> 1000000,
                        endTime |-> <<1090000>>, durationSeconds |-> <<90>>]
            n == Len(activities')
        IN
        /\ ( /\ DOMAIN tasks = {}
             /\ createTask("admin", "A", "D", <<m>>, "MEDIUM", <<>>, << >>,
                           NoFail) )
           => /\ DOMAIN tasks' = {"t1"}
              /\ tasks'["t1"].assigneeUserId = <<m>>
              /\ [k \in DOMAIN activities' |-> activities'[k].type]
                    = <<"TASK_CREATED", "TASK_ASSIGNED">>
              /\ \A k \in DOMAIN activities' : activities'[k].taskId = "t1"
        /\ ( /\ "t1" \in DOMAIN tasks
             /\ tasks["t1"].assigneeUserId = <<m>>
             /\ timeEntries = << >>
             /\ clock = 1000000
             /\ startTimeEntry(m, "t1", NoFail) )
           => /\ result' = [op |-> "startTimeEntry", outcome |-> "ok"]
              /\ timeEntries' = << started >>
        /\ ( /\ timeEntries = << started >>
             /\ clock = 1090000
             /\ stopTimeEntry(m, 1, NoFail) )
           => /\ result' = [op |-> "stopTimeEntry", outcome |-> "ok"]
              /\ timeEntries' = << stopped >>
              /\ n = Len(activities) + 1
              /\ activities'[n].type = "TIMER_STOPPED"
              /\ activities'[n].taskId = "t1"
              /\ activities'[n].message = "Stopped timer (1m 30s)"
        /\ \A from \in ReportInstants, to \in ReportInstants :
              ( /\ timeEntries = << stopped >>
                /\ from <= 1000000
                /\ 1000000 <= to
                /\ getTimeTotalsByUser(from, to) )
              => result'.totals
                    = << [userId |-> m, totalDurationSeconds |-> 90] >>
       ]_vars

\* The end of the scenario for member u1: the four records of the task, the
\* stopped entry of 90 seconds and the report that lists u1 with 90.
C23_Witness ==
    /\ [k \in DOMAIN activities |-> activities[k].type]
          = <<"TASK_CREATED", "TASK_ASSIGNED", "TIMER_STARTED", "TIMER_STOPPED">>
    /\ activities[4].message = "Stopped timer (1m 30s)"
    /\ timeEntries = << [taskId |-> "t1", userId |-> "u1",
                         startTime |-> 1000000, endTime |-> <<1090000>>,
                         durationSeconds |-> <<90>>] >>
    /\ result.op = "getTimeTotalsByUser"
    /\ result.outcome = "ok"
    /\ result.totals = << [userId |-> "u1", totalDurationSeconds |-> 90] >>

\* C22: activity logging is best-effort.  A call that has persisted its
\* change of a task, a time entry or a comment returns its normal result to
\* the caller, also when a write of its activity records fails.
C22_BestEffortLogging ==
    [][( \/ tasks' # tasks
         \/ timeEntries' # timeEntries
         \/ comments' # comments )
       => result'.outcome = "ok"
      ]_vars

\* C24: every successful call that changes a stored task, time entry or
\* comment adds at least one activity record, on a task of the store, in the
\* same call; an updateTaskAsAdmin that changes the title alone included.
C24_ChangeEmitsActivity ==
    [][( /\ \/ tasks' # tasks
            \/ timeEntries' # timeEntries
            \/ comments' # comments
         /\ result'.outcome = "ok" )
       => /\ Len(activities') > Len(activities)
          /\ \A k \in (Len(activities) + 1)..Len(activities') :
                activities'[k].taskId \in DOMAIN tasks'
      ]_vars

\* C25: comments and activities are append-only.  Every step leaves the
\* records already stored as they are and in place, and only adds records
\* after them.
C25_AppendOnly ==
    [][ /\ Len(activities') >= Len(activities)
        /\ SubSeq(activities', 1, Len(activities)) = activities
        /\ Len(comments') >= Len(comments)
        /\ SubSeq(comments', 1, Len(comments)) = comments
      ]_vars

\* A timer was started on a task, a comment added, the timer stopped and a
\* second timer started on the same task: the earlier records are all in
\* the log, in that order.
C25_Witness ==
    /\ Len(comments) = 1
    /\ Len(timeEntries) = 2
    /\ \E i \in DOMAIN activities, j \in DOMAIN activities,
          k \in DOMAIN activities :
          /\ i < j
          /\ j < k
          /\ activities[i].type = "TIMER_STARTED"
          /\ activities[j].type = "COMMENT_ADDED"
          /\ activities[k].type = "TIMER_STARTED"
          /\ activities[i].taskId = activities[k].taskId

\* C26: createTask rejects invalid input before it persists anything.  With
\* an empty title or description, a title of more than 200 or a description
\* of more than 2000 characters the call fails, no task is stored and no
\* activity is emitted.
C26_CreateTaskValidates ==
    [][\A title \in TitleInputs, description \in DescriptionInputs :
        ( /\ createTask("admin", title, description, <<>>, "MEDIUM", <<>>,
                        << >>, NoFail)
          /\ \/ title = ""
             \/ description = ""
             \/ Len(title) > 200
             \/ Len(description) > 2000 )
        => /\ result'.outcome # "ok"
           /\ tasks' = tasks
           /\ activities' = activities
       ]_vars

\* C27: duration is computed the same way on every path that stops a
\* timer.  Whenever a step closes an active entry, be it stopTimeEntry,
\* completeTask or a handler of the member page, the durationSeconds it
\* records is floor((end - start) / 1000).
C27_SameDurationOnEveryPath ==
    [][\A i \in DOMAIN timeEntries :
        ( /\ timeEntries[i].endTime = <<>>
          /\ timeEntries'[i].endTime # <<>> )
        => timeEntries'[i].durationSeconds
              = << (timeEntries'[i].endTime[1] - timeEntries[i].startTime)
                       \div 1000 >>
      ]_vars

\* C28: a stop is applied exactly once under concurrency.  No step writes
\* endTime or durationSeconds of an entry that is already stopped, no two
\* stopTimeEntry requests for the same entry both succeed, and there are
\* never more TIMER_STOPPED activities than stopped entries.
C28_StopAppliedOnce ==
    [][ /\ \A i \in DOMAIN timeEntries :
              timeEntries[i].endTime # <<>> => timeEntries'[i] = timeEntries[i]
        /\ ~ \E r1, r2 \in Requests :
              /\ r1 # r2
              /\ reqs'[r1].pc = "done" /\ reqs'[r1].outcome = "ok"
              /\ reqs'[r2].pc = "done" /\ reqs'[r2].outcome = "ok"
              /\ reqs'[r1].timeEntryId = reqs'[r2].timeEntryId
        /\ Cardinality({k \in DOMAIN activities' :
                           activities'[k].type = "TIMER_STOPPED"})
              <= Cardinality({i \in DOMAIN timeEntries' :
                                 timeEntries'[i].endTime # <<>>})
      ]_vars

\* C29: an active entry can always be stopped by its owner.  A stopTimeEntry
\* call of the owner on an active entry at a time after its start succeeds
\* and closes the entry at that time, whoever the task is assigned to and
\* whatever its status; and every active entry is eventually stopped when the
\* owner's stop request is served.
C29_OwnerCanAlwaysStop ==
    /\ [][\A u \in Users, i \in TimeEntryIds :
            ( /\ i \in DOMAIN timeEntries
              /\ timeEntries[i].userId = u
              /\ timeEntries[i].endTime = <<>>
              /\ stopTimeEntry(u, i, 0)
              /\ clock' > timeEntries[i].startTime )
            => /\ result'.outcome = "ok"
               /\ timeEntries'[i].endTime = <<clock'>>
               /\ tasks' = tasks ]_vars
    /\ \A i \in TimeEntryIds :
          (i \in DOMAIN timeEntries /\ timeEntries[i].endTime = <<>>)
             ~> (i \in DOMAIN timeEntries /\ timeEntries[i].endTime # <<>>)

\* The owner stopped the timer after the task was taken away or set to DONE:
\* the log ends with the change followed by TIMER_STOPPED.
C29_Witness ==
    /\ result = [op |-> "stopTimeEntry", outcome |-> "ok"]
    /\ Len(activities) >= 2
    /\ activities[Len(activities)].type = "TIMER_STOPPED"
    /\ activities[Len(activities) - 1].type
          \in {"TASK_ASSIGNED", "TASK_STATUS_CHANGED"}
    /\ \E i \in DOMAIN timeEntries :
          /\ timeEntries[i].endTime = <<clock>>
          /\ \/ tasks[timeEntries[i].taskId].status = "DONE"
             \/ tasks[timeEntries[i].taskId].assigneeUserId
                   # <<timeEntries[i].userId>>

\* C30: startTimeEntry neither reads nor writes the task's status.  A
\* startTimeEntry call, successful or failed, leaves every task record as it
\* was; and the call of the assignee who has no active entry succeeds and
\* creates an active entry on the task whatever the task's status, DONE
\* included.
C30_StartIgnoresStatus ==
    [][\A u \in Users, t \in TaskIds :
        startTimeEntry(u, t, 0)
        => /\ tasks' = tasks
           /\ ( /\ t \in DOMAIN tasks
                /\ tasks[t].assigneeUserId = <<u>>
                /\ \A i \in DOMAIN timeEntries :
                      timeEntries[i].userId = u => timeEntries[i].endTime # <<>> )
              => /\ result'.outcome = "ok"
                 /\ Len(timeEntries') = Len(timeEntries) + 1
                 /\ timeEntries'[Len(timeEntries')].taskId = t
                 /\ timeEntries'[Len(timeEntries')].userId = u
                 /\ timeEntries'[Len(timeEntries')].endTime = <<>>
      ]_vars

\* After completeTask the member started a timer again: the task is DONE and
\* carries an active entry, and the log ends with the completion followed by
\* TIMER_STARTED.
C30_Witness ==
    /\ result = [op |-> "startTimeEntry", outcome |-> "ok"]
    /\ Len(activities) >= 2
    /\ activities[Len(activities)].type = "TIMER_STARTED"
    /\ activities[Len(activities) - 1].type = "TASK_STATUS_CHANGED"
    /\ activities[Len(activities) - 1].message = "Task completed"
    /\ \E i \in DOMAIN timeEntries :
          /\ timeEntries[i].endTime = <<>>
          /\ timeEntries[i].taskId = activities[Len(activities)].taskId
          /\ timeEntries[i].taskId = activities[Len(activities) - 1].taskId
          /\ tasks[timeEntries[i].taskId].status = "DONE"

====
